---- MODULE Spec2Model ----
(***************************************************************************)
(* Task-management backend (jmoloko/task-management): the task service,    *)
(* its HTTP handlers, the PostgreSQL task repository and the Redis         *)
(* analytics cache, as a state machine.                                    *)
(*                                                                         *)
(* Time is counted in whole hours.  Texts (title, description, search)     *)
(* are sequences of one-character strings, so that ILIKE is computed.      *)
(* A value that may be absent (a *time.Time, a returned task) is a         *)
(* sequence of length 0 or 1.                                              *)
(***************************************************************************)
EXTENDS Integers, Sequences, FiniteSets, TLC

VARIABLES
    tasks,         \* the tasks table
    cache,         \* the Redis keys analytics:{userID}:{period}
    now,           \* the wall clock
    nextId,        \* the next value of uuid.New()
    lastOp,        \* the last request handled and its response
    completedLog,  \* history: per task, the completed timestamp that the
                   \* first update setting it to done reported
    worker,        \* the BackgroundWorker: its stop channel, sync.Once and
                   \* WaitGroup, its two loops and the callers of Stop
    auth,          \* the users table, the minutes past the hour of now,
                   \* the Authorization header of the last request to
                   \* /api/tasks, and history: the tokens Login issued
    inflight       \* per client, the request its goroutine is serving: the
                   \* call of the service it is at, its locals, its response

vars ==
    <<tasks, cache, now, nextId, lastOp, completedLog, worker, auth, inflight>>

(***************************************************************************)
(* Program constants                                                       *)
(***************************************************************************)
\* hours in the day that AddDate(0, 0, 1) adds
Day == 24

\* analyticsTTL = 6 * time.Hour
AnalyticsTTL == 6

\* time.Time{} : the zero time, for which IsZero() holds
ZeroTime == 0

StatusPending == "pending"

StatusInProgress == "in_progress"

StatusDone == "done"

PriorityLow == "low"

PriorityMedium == "medium"

PriorityHigh == "high"

ErrTaskNotFound == "ErrTaskNotFound"

ErrInvalidTaskData == "ErrInvalidTaskData"

ErrAccessDenied == "ErrAccessDenied"

\* any other error value (a wrapped driver error): no sentinel matches it
ErrOther == "error"

NoErr == "nil"

(***************************************************************************)
(* Bounds of the model                                                     *)
(***************************************************************************)
\* number of task ids (uuid.New() values) ever handed out
MaxTasks == 2

\* number of clock steps
MaxTicks == 2

\* longest batch handed to ImportTasks
MaxImport == 2

Users == {"u1", "u2"}

\* the wall clock when the process starts; never the zero time
StartTime == 12 * Day

\* the clock advances in steps of half a cache TTL
TickStep == AnalyticsTTL \div 2

MaxTime == StartTime + MaxTicks * TickStep

TaskIds == 1..MaxTasks

EmptyText == <<>>

Titles == {EmptyText, <<"a">>}

Descriptions == {EmptyText, <<"x">>}

StatusInputs == {"", StatusDone, StatusInProgress}

PriorityInputs == {"", PriorityHigh}

\* a due date of a request body: absent, or a moment shortly after start
SoonDue == StartTime + 4

DueInputs == {ZeroTime, SoonDue}

\* the JSON body bound into models.Task by CreateTask, UpdateTask, ImportTasks
Bodies ==
    [title : Titles, description : Descriptions, status : StatusInputs,
     priority : PriorityInputs, due_date : DueInputs]

EmptyBody ==
    [title |-> EmptyText, description |-> EmptyText, status |-> "",
     priority |-> "", due_date |-> ZeroTime]

(***************************************************************************)
(* The state after construction: an empty tasks table, an empty cache.     *)
(***************************************************************************)
RegisterRequest(email, password) == [email |-> email, password |-> password]

NoRequest == RegisterRequest(EmptyText, EmptyText)

\* the JSON object of an auth response: its "error" text, and its "token"
\* if it has one
Response(error, token) == [error |-> error, token |-> token]

NoResponse == Response("", <<>>)

NoOp ==
    [kind |-> "none", user |-> "", id |-> 0, fault |-> "none", err |-> NoErr,
     http |-> 0, body |-> EmptyBody, tasks |-> <<>>, analytics |-> <<>>,
     queries |-> 0, period |-> "", query |-> "", req |-> NoRequest,
     resp |-> NoResponse, deletes |-> <<>>, active |-> {}, pairs |-> <<>>]

\* an empty users table, on the hour, no request made and no token issued
NoAuth ==
    [users |-> {}, minute |-> 0, header |-> <<>>, issued |-> {}]

\* most concurrent callers of BackgroundWorker.Stop
MaxStoppers == 2

Stoppers == 1..MaxStoppers

Loops == {"sweep", "refresh"}

\* most calls of BackgroundWorker.Start on one worker
MaxStarts == 2

\* the calls of Start after the first
LaterStarts == 2..MaxStarts

\* NewBackgroundWorker: the channel open, the Once unused, no goroutine
NewBackgroundWorker ==
    [started |-> FALSE,
     stopChan |-> "open",
     closes |-> 0,
     stopOnce |-> "new",
     wg |-> 0,
     loop |-> [g \in Loops |-> "none"],
     iterations |-> 0,
     stop |-> [c \in Stoppers |-> "idle"],
     more |-> [n \in LaterStarts |-> [g \in Loops |-> "none"]]]

\* the clients whose requests the server may be serving at the same time
Clients == {"c1", "c2"}

\* a goroutine of the server that serves no request
NoRequestServed ==
    [call |-> "none", pc |-> "idle", user |-> "", id |-> 0,
     body |-> EmptyBody, period |-> "", req |-> NoRequest, found |-> <<>>,
     store |-> {}, read |-> 0, out |-> <<>>, err |-> NoErr, http |-> 0,
     calls |-> 0, wrote |-> 0]

NoRequests == [c \in Clients |-> NoRequestServed]

Init ==
    /\ tasks = {}
    /\ cache = <<>>
    /\ now = StartTime
    /\ nextId = 1
    /\ lastOp = NoOp
    /\ completedLog = [id \in TaskIds |-> <<>>]
    /\ worker = NewBackgroundWorker
    /\ auth = NoAuth
    /\ inflight = NoRequests

Op(kind, user, id, fault, err, http, body, out, an, queries) ==
    [kind |-> kind, user |-> user, id |-> id, fault |-> fault, err |-> err,
     http |-> http, body |-> body, tasks |-> out, analytics |-> an,
     queries |-> queries, period |-> "", query |-> "", req |-> NoRequest,
     resp |-> NoResponse, deletes |-> <<>>, active |-> {}, pairs |-> <<>>]

(***************************************************************************)
(* PostgreSQL task repository.  The tasks table is a set of rows with the  *)
(* columns of the schema; id is its primary key.                           *)
(***************************************************************************)
\* INSERT INTO tasks (id, title, description, status, priority, user_id,
\* due_date, created_at, updated_at): completed_at is not in the column
\* list, so the new row has it NULL whatever task.CompletedAt holds.
RepoCreate(store, task) ==
    store \cup {[task EXCEPT !.completed_at = <<>>]}

\* SELECT ... WHERE id = $1 : the row, or sql.ErrNoRows
RepoGetByID(store, id) ==
    IF \E r \in store : r.id = id
    THEN <<CHOOSE r \in store : r.id = id>>
    ELSE <<>>

\* rows matched by WHERE id = $7 AND user_id = $8
RepoUpdateMatches(store, task) ==
    {r \in store : r.id = task.id /\ r.user_id = task.user_id}

\* faulty variant: the UPDATE leaves the priority column as it is
RepoUpdateKeepingPriority(store, task) ==
    {IF r \in RepoUpdateMatches(store, task)
     THEN [r EXCEPT !.title = task.title,
                    !.description = task.description,
                    !.status = task.status,
                    !.due_date = task.due_date,
                    !.updated_at = task.updated_at]
     ELSE r : r \in store}

\* UPDATE tasks SET title, description, status, priority, due_date,
\* updated_at WHERE id = $7 AND user_id = $8 : completed_at is not set
RepoUpdate(store, task) ==
    {IF r \in RepoUpdateMatches(store, task)
     THEN [r EXCEPT !.title = task.title,
                    !.description = task.description,
                    !.status = task.status,
                    !.priority = task.priority,
                    !.due_date = task.due_date,
                    !.updated_at = task.updated_at]
     ELSE r : r \in store}

\* DELETE FROM tasks WHERE id = $1
RepoDelete(store, id) ==
    {r \in store : r.id # id}

\* calendar day of a timestamp (the ::date cast)
DateOf(t) == t \div Day

\* ILIKE compares without regard to case
LowerChar(c) == IF c = "A" THEN "a" ELSE IF c = "X" THEN "x" ELSE c

\* text ILIKE '%' || search || '%'
ILike(text, search) ==
    \E off \in 0..(Len(text) - Len(search)) :
        \A i \in 1..Len(search) :
            LowerChar(text[off + i]) = LowerChar(search[i])

\* faulty variant: the WHERE clause without user_id = $1
RepoGetAllRowsOfAnyUser(store, filters) ==
    {r \in store :
        /\ filters.status # "" => r.status = filters.status
        /\ filters.priority # "" => r.priority = filters.priority
        /\ filters.due_date # <<>> =>
              DateOf(r.due_date) = DateOf(filters.due_date[1])
        /\ filters.search # <<>> =>
              \/ ILike(r.title, filters.search)
              \/ ILike(r.description, filters.search)}

\* the WHERE clause GetAll builds: user_id always, the others when given
RepoGetAllRows(store, filters) ==
    {r \in store :
        /\ r.user_id = filters.user_id
        /\ filters.status # "" => r.status = filters.status
        /\ filters.priority # "" => r.priority = filters.priority
        /\ filters.due_date # <<>> =>
              DateOf(r.due_date) = DateOf(filters.due_date[1])
        /\ filters.search # <<>> =>
              \/ ILike(r.title, filters.search)
              \/ ILike(r.description, filters.search)}

\* position of a priority in the enum task_priority ('low','medium','high')
PriorityRank(p) ==
    IF p = PriorityLow THEN 1 ELSE IF p = PriorityMedium THEN 2 ELSE 3

\* ORDER BY due_date ASC, priority DESC, created_at DESC : a may precede b
OrderedBefore(a, b) ==
    \/ a.due_date < b.due_date
    \/ /\ a.due_date = b.due_date
       /\ \/ PriorityRank(a.priority) > PriorityRank(b.priority)
          \/ /\ a.priority = b.priority
             /\ a.created_at >= b.created_at

\* the result lists GetAll may return: the matching rows in ORDER BY order
\* (rows that tie on all three keys come in either order)
RepoGetAll(store, filters) ==
    LET rows == RepoGetAllRows(store, filters)
        n == Cardinality(rows)
    IN  {l \in [1..n -> rows] :
            /\ \A i, j \in 1..n : i # j => l[i] # l[j]
            /\ \A i, j \in 1..n : i < j => OrderedBefore(l[i], l[j])}

Filters(status, priority, due, user, search) ==
    [status |-> status, priority |-> priority, due_date |-> due,
     user_id |-> user, search |-> search]

(***************************************************************************)
(* TaskServiceImpl.  A store call fails when the injected fault names it   *)
(* ("read": the SELECT, "write": the INSERT, UPDATE or DELETE); a service  *)
(* method yields the error, the tasks table afterwards and what it         *)
(* returns, and the number of repository calls it made.                    *)
(***************************************************************************)
Faults == {"none", "read", "write"}

\* models.Task as the handlers bind and fill it
\* the UserID of the models.Task that ShouldBindJSON fills from a body: the
\* body's user_id, empty when it carries none
BoundUserID(body) ==
    IF "user_id" \in DOMAIN body THEN body.user_id ELSE ""

\* its ID: the body's id, 0 for the empty string of a body that carries none
BoundID(body) ==
    IF "id" \in DOMAIN body THEN body.id ELSE 0

Task(id, user, body, t) ==
    [id |-> id, title |-> body.title, description |-> body.description,
     status |-> body.status, priority |-> body.priority, user_id |-> user,
     due_date |-> body.due_date, created_at |-> t, updated_at |-> t,
     completed_at |-> <<>>]

Result(err, store, out, calls) ==
    [err |-> err, store |-> store, out |-> out, calls |-> calls]

WithDefaultsAlwaysPending(task, t) ==
    [task EXCEPT
        !.status = StatusPending,
        !.priority = IF task.priority = "" THEN PriorityMedium
                     ELSE task.priority,
        !.due_date = IF task.due_date = ZeroTime THEN t + Day
                     ELSE task.due_date]

\* the defaults Create and Import fill in
WithDefaults(task, t) ==
    [task EXCEPT
        !.status = IF task.status = "" THEN StatusPending ELSE task.status,
        !.priority = IF task.priority = "" THEN PriorityMedium
                     ELSE task.priority,
        !.due_date = IF task.due_date = ZeroTime THEN t + Day
                     ELSE task.due_date]

Create(store, task, fault, t) ==
    IF task.title = EmptyText
    THEN Result(ErrInvalidTaskData, store, <<>>, 0)
    ELSE LET filled == WithDefaults(task, t)
         IN  IF fault = "write" \/ RepoGetByID(store, filled.id) # <<>>
             THEN Result(ErrOther, store, <<>>, 1)
             ELSE Result(NoErr, RepoCreate(store, filled), <<filled>>, 1)

\* faulty variant: the owner bound from the body is kept
CreateTaskKeepingBoundOwner(store, user, task, fault, t) ==
    Create(store, task, fault, t)

CreateTask(store, user, task, fault, t) ==
    Create(store, [task EXCEPT !.user_id = user], fault, t)

\* faulty variant: the owner of the task is not compared with the requester
GetByIDAnyOwner(store, id, user, fault) ==
    LET found == IF fault = "read" THEN <<>> ELSE RepoGetByID(store, id)
    IN  IF found = <<>>
        THEN Result(ErrTaskNotFound, store, <<>>, 1)
        ELSE Result(NoErr, store, found, 1)

GetByID(store, id, user, fault) ==
    LET found == IF fault = "read" THEN <<>> ELSE RepoGetByID(store, id)
    IN  IF found = <<>>
        THEN Result(ErrTaskNotFound, store, <<>>, 1)
        ELSE IF found[1].user_id # user
             THEN Result(ErrAccessDenied, store, <<>>, 1)
             ELSE Result(NoErr, store, found, 1)

\* the field assignments of Update on the task read from the store
Patched(existing, task, t) ==
    LET title == IF task.title # EmptyText THEN task.title
                 ELSE existing.title
        description == IF task.description # existing.description
                       THEN task.description ELSE existing.description
        status == IF task.status # "" THEN task.status ELSE existing.status
        completed == IF /\ task.status # ""
                        /\ task.status = StatusDone
                        /\ \/ existing.completed_at = <<>>
                           \/ existing.completed_at = <<ZeroTime>>
                     THEN <<t>> ELSE existing.completed_at
        priority == IF task.priority # "" THEN task.priority
                    ELSE existing.priority
        due == IF task.due_date # ZeroTime THEN task.due_date
               ELSE existing.due_date
    IN  [existing EXCEPT !.title = title, !.description = description,
                         !.status = status, !.completed_at = completed,
                         !.priority = priority, !.due_date = due,
                         !.updated_at = t]

\* faulty variant: a missing task is reported as access denied
UpdateDenyingMissing(store, id, user, task, fault, t) ==
    LET found == IF fault = "read" THEN <<>> ELSE RepoGetByID(store, id)
    IN  IF found = <<>> \/ found[1].user_id # user
        THEN Result(ErrAccessDenied, store, <<>>, 1)
        ELSE LET existingTask == Patched(found[1], task, t)
             IN  IF fault = "write"
                 THEN Result(ErrOther, store, <<>>, 2)
                 ELSE Result(NoErr, RepoUpdate(store, existingTask),
                             <<existingTask>>, 2)

Update(store, id, user, task, fault, t) ==
    LET found == IF fault = "read" THEN <<>> ELSE RepoGetByID(store, id)
    IN  IF found = <<>>
        THEN Result(ErrTaskNotFound, store, <<>>, 1)
        ELSE IF found[1].user_id # user
             THEN Result(ErrAccessDenied, store, <<>>, 1)
             ELSE LET existingTask == Patched(found[1], task, t)
                  IN  IF \/ fault = "write"
                         \/ RepoUpdateMatches(store, existingTask) = {}
                      THEN Result(ErrOther, store, <<>>, 2)
                      ELSE Result(NoErr, RepoUpdate(store, existingTask),
                                  <<existingTask>>, 2)

UpdateUserTask(store, user, task, fault, t) ==
    Update(store, task.id, user, task, fault, t)

Delete(store, taskID, userID, fault) ==
    LET got == GetByID(store, taskID, userID, fault)
    IN  IF got.err # NoErr
        THEN Result(got.err, store, <<>>, 1)
        ELSE IF got.out[1].user_id # userID
             THEN Result(ErrAccessDenied, store, <<>>, 1)
             ELSE IF fault = "write" \/ RepoGetByID(store, taskID) = <<>>
                  THEN Result(ErrOther, store, <<>>, 2)
                  ELSE Result(NoErr, RepoDelete(store, taskID), <<>>, 2)

\* GetAll passes the filters on and does not use its userID argument
GetAll(store, userID, filters, fault) ==
    IF fault = "read"
    THEN {Result(ErrOther, store, <<>>, 1)}
    ELSE {Result(NoErr, store, l, 1) : l \in RepoGetAll(store, filters)}

Export(store, userID, fault) ==
    GetAll(store, userID, Filters("", "", <<>>, userID, <<>>), fault)

\* faulty variant: a task whose INSERT is rejected is skipped and the loop
\* goes on
RECURSIVE ImportFromSkippingRejected(_, _, _, _, _, _, _)
ImportFromSkippingRejected(store, userID, bodies, i, failAt, id, t) ==
    IF i > Len(bodies)
    THEN Result(IF failAt = 0 THEN NoErr ELSE ErrOther, store, <<>>,
                IF failAt = 0 THEN i - 1 ELSE failAt)
    ELSE LET bound == Task(id, BoundUserID(bodies[i]), bodies[i], t)
             task == WithDefaults([bound EXCEPT !.user_id = userID], t)
         IN  IF failAt = i
             THEN ImportFromSkippingRejected(store, userID, bodies, i + 1,
                                             failAt, id, t)
             ELSE ImportFromSkippingRejected(RepoCreate(store, task), userID,
                                             bodies, i + 1, failAt, id + 1, t)

\* the loop of Import from its i-th task on; failAt is the index of the
\* task whose INSERT the store rejects (0: none), id the next fresh uuid
RECURSIVE ImportFrom(_, _, _, _, _, _, _)
ImportFrom(store, userID, bodies, i, failAt, id, t) ==
    IF i > Len(bodies)
    THEN Result(NoErr, store, <<>>, i - 1)
    ELSE LET bound == Task(id, BoundUserID(bodies[i]), bodies[i], t)
             task == WithDefaults([bound EXCEPT !.user_id = userID], t)
         IN  IF failAt = i
             THEN Result(ErrOther, store, <<>>, i)
             ELSE ImportFrom(RepoCreate(store, task), userID, bodies, i + 1,
                             failAt, id + 1, t)

Import(store, userID, bodies, failAt, id, t) ==
    ImportFrom(store, userID, bodies, 1, failAt, id, t)

(***************************************************************************)
(* Analytics.  A float64 is the fraction it stands for, in lowest terms;   *)
(* a Go map is a function on the keys it holds; a time.Time is its wall    *)
(* clock reading and whether it carries a monotonic reading.               *)
(***************************************************************************)
RECURSIVE GCD(_, _)
GCD(a, b) ==
    IF b = 0 THEN a ELSE GCD(b, a % b)

\* float64(n) / float64(d), d > 0
Float(n, d) ==
    LET g == GCD(n, d) IN [num |-> n \div g, den |-> d \div g]

\* time.Now()
TimeNow(t) ==
    [wall |-> t, monotonic |-> TRUE]

\* make(map[K]int)
EmptyMap ==
    [k \in {} |-> 0]

IncrementedOnce(m, k) ==
    [x \in DOMAIN m \cup {k} |-> IF x \in DOMAIN m THEN m[x] ELSE 1]

\* m[k]++
Incremented(m, k) ==
    [x \in DOMAIN m \cup {k} |->
        IF x \in DOMAIN m THEN (IF x = k THEN m[x] + 1 ELSE m[x]) ELSE 1]

\* the counters before the loop over the tasks
ZeroCounters ==
    [StatusCount |-> EmptyMap, PriorityCount |-> EmptyMap,
     completedTasks |-> 0, totalCompletionTime |-> 0, onTimeTasks |-> 0,
     overdueTasks |-> 0]

\* the loop of GetUserAnalytics over the tasks, from the i-th one on
RECURSIVE AnalyticsLoop(_, _, _, _)
AnalyticsLoop(rows, i, acc, t) ==
    IF i > Len(rows)
    THEN acc
    ELSE LET task == rows[i]
             completed == /\ task.status = StatusDone
                          /\ task.completed_at # <<>>
             onTime == completed /\ task.completed_at[1] < task.due_date
             overdue == task.status # StatusDone /\ t > task.due_date
         IN  AnalyticsLoop(rows, i + 1,
                 [acc EXCEPT
                     !.StatusCount = Incremented(@, task.status),
                     !.PriorityCount = Incremented(@, task.priority),
                     !.completedTasks = IF completed THEN @ + 1 ELSE @,
                     !.totalCompletionTime =
                         IF completed
                         THEN @ + (task.completed_at[1] - task.created_at)
                         ELSE @,
                     !.onTimeTasks = IF onTime THEN @ + 1 ELSE @,
                     !.overdueTasks = IF overdue THEN @ + 1 ELSE @],
                 t)

\* float64(onTimeTasks) / float64(completedTasks) * 100
OnTimeRate(onTimeTasks, completedTasks) ==
    Float(onTimeTasks * 100, completedTasks)

ComputeAnalyticsWithinPeriod(rows, period, t) ==
    LET days == IF period = "day" THEN 1 ELSE IF period = "week" THEN 7
                ELSE 30
        within(row) == row.created_at >= t - days * Day
        acc == AnalyticsLoop(SelectSeq(rows, within), 1, ZeroCounters, t)
    IN  [StatusCount |-> acc.StatusCount,
         PriorityCount |-> acc.PriorityCount,
         AvgCompletionTime |->
             IF acc.completedTasks > 0
             THEN Float(acc.totalCompletionTime, acc.completedTasks)
             ELSE Float(0, 1),
         OnTimeCompletionRate |->
             IF acc.completedTasks > 0
             THEN OnTimeRate(acc.onTimeTasks, acc.completedTasks)
             ELSE Float(0, 1),
         OverdueTasks |-> acc.overdueTasks,
         Period |-> period,
         GeneratedAt |-> TimeNow(t)]

\* models.Analytics as GetUserAnalytics computes it from the tasks read
ComputeAnalytics(rows, period, t) ==
    LET acc == AnalyticsLoop(rows, 1, ZeroCounters, t)
    IN  [StatusCount |-> acc.StatusCount,
         PriorityCount |-> acc.PriorityCount,
         AvgCompletionTime |->
             IF acc.completedTasks > 0
             THEN Float(acc.totalCompletionTime, acc.completedTasks)
             ELSE Float(0, 1),
         OnTimeCompletionRate |->
             IF acc.completedTasks > 0
             THEN OnTimeRate(acc.onTimeTasks, acc.completedTasks)
             ELSE Float(0, 1),
         OverdueTasks |-> acc.overdueTasks,
         Period |-> period,
         GeneratedAt |-> TimeNow(t)]

(***************************************************************************)
(* Redis analytics cache.  The cache is a function from keys to the JSON   *)
(* text stored and the time at which Redis drops the key.                  *)
(***************************************************************************)
\* fmt.Sprintf("analytics:%s:%s", userID, period)
\* faulty variant: one key per user
AnalyticsKeyOfUser(userID, period) ==
    <<"analytics", userID, "">>

AnalyticsKey(userID, period) ==
    <<"analytics", userID, period>>

\* a time.Time in JSON is its RFC 3339 text: the wall clock reading only
MarshalTime(tv) ==
    tv.wall

UnmarshalTime(text) ==
    [wall |-> text, monotonic |-> FALSE]

\* json.Marshal of a CachedAnalytics, by the json tags of the structs
Marshal(ca) ==
    [user_id |-> ca.UserID,
     period |-> ca.Period,
     analytics |->
         [status_count |-> ca.Analytics.StatusCount,
          priority_count |-> ca.Analytics.PriorityCount,
          avg_completion_time |-> ca.Analytics.AvgCompletionTime,
          on_time_completion_rate |-> ca.Analytics.OnTimeCompletionRate,
          overdue_tasks |-> ca.Analytics.OverdueTasks,
          period |-> ca.Analytics.Period,
          generated_at |-> MarshalTime(ca.Analytics.GeneratedAt)],
     cached_at |-> MarshalTime(ca.CachedAt)]

\* json.Unmarshal into a CachedAnalytics
Unmarshal(json) ==
    [UserID |-> json.user_id,
     Period |-> json.period,
     Analytics |->
         [StatusCount |-> json.analytics.status_count,
          PriorityCount |-> json.analytics.priority_count,
          AvgCompletionTime |-> json.analytics.avg_completion_time,
          OnTimeCompletionRate |-> json.analytics.on_time_completion_rate,
          OverdueTasks |-> json.analytics.overdue_tasks,
          Period |-> json.analytics.period,
          GeneratedAt |-> UnmarshalTime(json.analytics.generated_at)],
     CachedAt |-> UnmarshalTime(json.cached_at)]

AnalyticsFaults == {"none", "cacheGet", "read", "cacheSet"}

\* RedisCache.GetUserAnalytics: the error and the entry found, if any
RedisGetUserAnalytics(kv, userID, period, fault) ==
    LET key == AnalyticsKey(userID, period)
    IN  IF fault = "cacheGet"
        THEN [err |-> ErrOther, data |-> <<>>]
        ELSE IF key \notin DOMAIN kv
             THEN [err |-> NoErr, data |-> <<>>]
             ELSE [err |-> NoErr, data |-> <<Unmarshal(kv[key].data)>>]

\* faulty variant: SET ... NX, an entry that is there is left as it is
RedisSetUserAnalyticsIfAbsent(kv, ca, fault, t) ==
    LET key == AnalyticsKey(ca.UserID, ca.Period)
    IN  IF fault = "cacheSet"
        THEN [err |-> ErrOther, kv |-> kv]
        ELSE [err |-> NoErr,
              kv |-> [k \in DOMAIN kv \cup {key} |->
                         IF k \in DOMAIN kv THEN kv[k]
                         ELSE [data |-> Marshal(ca),
                               expire |-> t + AnalyticsTTL]]]

RedisSetUserAnalyticsTwiceTTL(kv, ca, fault, t) ==
    LET key == AnalyticsKey(ca.UserID, ca.Period)
    IN  IF fault = "cacheSet"
        THEN [err |-> ErrOther, kv |-> kv]
        ELSE [err |-> NoErr,
              kv |-> [k \in DOMAIN kv \cup {key} |->
                         IF k = key
                         THEN [data |-> Marshal(ca),
                               expire |-> t + 2 * AnalyticsTTL]
                         ELSE kv[k]]]

\* RedisCache.SetUserAnalytics at time t: the error and the cache afterwards
RedisSetUserAnalytics(kv, ca, fault, t) ==
    LET key == AnalyticsKey(ca.UserID, ca.Period)
    IN  IF fault = "cacheSet"
        THEN [err |-> ErrOther, kv |-> kv]
        ELSE [err |-> NoErr,
              kv |-> [k \in DOMAIN kv \cup {key} |->
                         IF k = key
                         THEN [data |-> Marshal(ca),
                               expire |-> t + AnalyticsTTL]
                         ELSE kv[k]]]

AnalyticsResult(err, out, kv, calls) ==
    [err |-> err, out |-> out, kv |-> kv, calls |-> calls]

GetUserAnalyticsUncached(store, kv, userID, period, fault, t) ==
    IF fault = "read"
    THEN {AnalyticsResult(ErrOther, <<>>, kv, 1)}
    ELSE {LET analytics == ComputeAnalytics(rows, period, t)
              set == RedisSetUserAnalytics(kv,
                         [UserID |-> userID, Period |-> period,
                          Analytics |-> analytics, CachedAt |-> TimeNow(t)],
                         fault, t)
          IN  AnalyticsResult(NoErr, <<analytics>>, set.kv, 1) :
          rows \in RepoGetAll(store, Filters("", "", <<>>, userID, <<>>))}

GetUserAnalyticsFailingWithCache(store, kv, userID, period, fault, t) ==
    IF fault \in {"cacheGet", "cacheSet"}
    THEN {AnalyticsResult(ErrOther, <<>>, kv, IF fault = "cacheSet" THEN 1
                                              ELSE 0)}
    ELSE GetUserAnalyticsUncached(store, kv, userID, period, fault, t)

GetUserAnalyticsHidingStoreError(store, kv, userID, period, fault, t) ==
    GetUserAnalyticsUncached(store, kv, userID, period,
                             IF fault = "read" THEN "none" ELSE fault, t)

\* TaskServiceImpl.GetUserAnalytics at time t: the results it can yield (one
\* per order in which the store may return rows that the ORDER BY ties)
GetUserAnalytics(store, kv, userID, period, fault, t) ==
    LET got == RedisGetUserAnalytics(kv, userID, period, fault)
    IN  IF got.err = NoErr /\ got.data # <<>>
        THEN {AnalyticsResult(NoErr, <<got.data[1].Analytics>>, kv, 0)}
        ELSE IF fault = "read"
             THEN {AnalyticsResult(ErrOther, <<>>, kv, 1)}
             ELSE {LET analytics == ComputeAnalytics(rows, period, t)
                       set == RedisSetUserAnalytics(kv,
                                  [UserID |-> userID, Period |-> period,
                                   Analytics |-> analytics,
                                   CachedAt |-> TimeNow(t)],
                                  fault, t)
                   IN  AnalyticsResult(NoErr, <<analytics>>, set.kv, 1) :
                   rows \in RepoGetAll(store,
                                Filters("", "", <<>>, userID, <<>>))}

(***************************************************************************)
(* BackgroundWorker: what one iteration of each loop does.                 *)
(***************************************************************************)
\* days after its due date at which the sweep takes a task for expired
ExpiryDays == 7

\* a call cleanupExpiredTasks made of taskService.Delete, and its error
DeleteCall(taskID, userID, err) ==
    [id |-> taskID, user |-> userID, err |-> err]

\* what cleanupExpiredTasks yields: its error, the store afterwards, the
\* tasks its query found, the store queries made and the Delete calls made
SweepResult(err, store, found, calls, deletes) ==
    [err |-> err, store |-> store, out |-> found, calls |-> calls,
     deletes |-> deletes]

RECURSIVE DeleteFromAbortingOnError(_, _, _, _, _, _)
DeleteFromAbortingOnError(store, found, i, faults, calls, deletes) ==
    IF i > Len(found)
    THEN SweepResult(NoErr, store, found, calls, deletes)
    ELSE LET r == Delete(store, found[i].id, found[i].user_id, faults[i])
             made == Append(deletes,
                            DeleteCall(found[i].id, found[i].user_id, r.err))
         IN  IF r.err # NoErr
             THEN SweepResult(r.err, r.store, found, calls + r.calls, made)
             ELSE DeleteFromAbortingOnError(r.store, found, i + 1, faults,
                                            calls + r.calls, made)

\* the loop of cleanupExpiredTasks over the tasks found, from the i-th on;
\* faults[i] is what befalls the i-th Delete, which is logged if it fails
\* and the loop goes on
RECURSIVE DeleteFrom(_, _, _, _, _, _)
DeleteFrom(store, found, i, faults, calls, deletes) ==
    IF i > Len(found)
    THEN SweepResult(NoErr, store, found, calls, deletes)
    ELSE LET r == Delete(store, found[i].id, found[i].user_id, faults[i])
             made == Append(deletes,
                            DeleteCall(found[i].id, found[i].user_id, r.err))
         IN  DeleteFrom(r.store, found, i + 1, faults, calls + r.calls, made)

\* BackgroundWorker.cleanupExpiredTasks at time t: the results it can yield.
\* fault "read" fails the query, "write" fails every DELETE.
CleanupExpiredTasks(store, fault, t) ==
    LET expiredDate == t - ExpiryDays * Day
        filters == Filters("", "", <<expiredDate>>, "", <<>>)
    IN  {IF r.err # NoErr
         THEN SweepResult(r.err, r.store, r.out, r.calls, <<>>)
         ELSE DeleteFrom(store, r.out, 1, [i \in 1..Len(r.out) |-> fault],
                         r.calls, <<>>) :
         r \in GetAll(store, "", filters, fault)}

\* TaskServiceImpl.GetActiveUsers: the error and the set of user ids (the
\* slice is in the order of a map iteration, which no caller depends on)
GetActiveUsers(store, fault) ==
    IF fault = "read"
    THEN [err |-> ErrOther, users |-> {}]
    ELSE [err |-> NoErr,
          users |-> {r.user_id :
                        r \in RepoGetAllRows(store,
                                  Filters("", "", <<>>, "", <<>>))}]

RefreshPeriods == <<"day", "week", "month">>

\* TaskServiceImpl.GetAnalytics: an alias of GetUserAnalytics.  The results
\* GetUserAnalytics can yield differ only in the order of the rows read, of
\* which the snapshot is independent.
GetAnalytics(store, kv, userID, period, fault, t) ==
    CHOOSE r \in GetUserAnalytics(store, kv, userID, period, fault, t) : TRUE

\* a round of the inner loop of generateAnalytics: the pair, what befell
\* it, the error of GetAnalytics and the error of SetUserAnalytics
\* ("skipped" after continue)
RefreshRound(userID, period, fault, get, set) ==
    [user |-> userID, period |-> period, fault |-> fault, get |-> get,
     set |-> set]

\* what befalls the rounds of an iteration: a fault for each (user, period)
PairFaults(fault) ==
    [pair \in Users \X {"day", "week", "month"} |-> fault]

\* a round once GetAnalytics has answered with r and, if it gave a
\* snapshot, SetUserAnalytics with set: the cache, the store queries made
\* and the round for the log
RoundOutcome(kv, userID, period, fault, r, set) ==
    IF r.err # NoErr
    THEN [kv |-> kv, calls |-> r.calls,
          round |-> RefreshRound(userID, period, fault, r.err, "skipped")]
    ELSE [kv |-> set.kv, calls |-> r.calls,
          round |-> RefreshRound(userID, period, fault, NoErr, set.err)]

\* SetUserAnalytics as a round calls it, with the snapshot of r
RoundSet(userID, period, fault, t, r) ==
    IF r.err # NoErr
    THEN [err |-> "skipped", kv |-> r.kv]
    ELSE RedisSetUserAnalytics(r.kv,
             [UserID |-> userID, Period |-> period, Analytics |-> r.out[1],
              CachedAt |-> TimeNow(t)],
             fault, t)

\* the body of the inner loop of generateAnalytics for one pair
RoundAfterGet(kv, userID, period, fault, t, r) ==
    RoundOutcome(kv, userID, period, fault, r,
                 RoundSet(userID, period, fault, t, r))

RefreshRoundOf(store, kv, userID, period, fault, t) ==
    RoundAfterGet(kv, userID, period, fault, t,
                  GetAnalytics(store, kv, userID, period, fault, t))

RECURSIVE RefreshPeriodsFrom(_, _, _, _, _, _, _, _)
RefreshPeriodsAfterEndingOnError(store, userID, i, faults, t, calls, rounds, done) ==
    IF done.round.get # NoErr
    THEN [kv |-> done.kv, calls |-> calls + done.calls,
          rounds |-> Append(rounds, done.round)]
    ELSE RefreshPeriodsFrom(store, done.kv, userID, i + 1, faults, t,
                            calls + done.calls, Append(rounds, done.round))

\* after one round the inner loop goes on with the next period
RefreshPeriodsAfter(store, userID, i, faults, t, calls, rounds, done) ==
    RefreshPeriodsFrom(store, done.kv, userID, i + 1, faults, t,
                       calls + done.calls, Append(rounds, done.round))

\* the inner loop of generateAnalytics for one user, from the i-th period;
\* faults[<<user, period>>] befalls the round of that pair
RefreshPeriodsFrom(store, kv, userID, i, faults, t, calls, rounds) ==
    IF i > Len(RefreshPeriods)
    THEN [kv |-> kv, calls |-> calls, rounds |-> rounds]
    ELSE RefreshPeriodsAfter(store, userID, i, faults, t, calls, rounds,
             RefreshRoundOf(store, kv, userID, RefreshPeriods[i],
                            faults[<<userID, RefreshPeriods[i]>>], t))

\* the outer loop of generateAnalytics over the users still to do
RECURSIVE RefreshUsers(_, _, _, _, _, _, _)
RefreshUsers(store, kv, users, faults, t, calls, rounds) ==
    IF users = {}
    THEN [kv |-> kv, calls |-> calls, rounds |-> rounds]
    ELSE LET u == CHOOSE x \in users : TRUE
             r == RefreshPeriodsFrom(store, kv, u, 1, faults, t, calls,
                                     rounds)
         IN  RefreshUsers(store, r.kv, users \ {u}, faults, t, r.calls,
                          r.rounds)

\* generateAnalytics once GetActiveUsers has answered with active
GenerateAnalyticsFor(store, kv, active, faults, t) ==
    IF active.err # NoErr
    THEN [err |-> active.err, kv |-> kv, calls |-> 1, active |-> {},
          rounds |-> <<>>]
    ELSE LET r == RefreshUsers(store, kv, active.users, faults, t, 1, <<>>)
         IN  [err |-> NoErr, kv |-> r.kv, calls |-> r.calls,
              active |-> active.users, rounds |-> r.rounds]

\* BackgroundWorker.generateAnalytics at time t: the error, the cache
\* afterwards, the number of store queries, the users and the rounds
GenerateAnalytics(store, kv, fault, t) ==
    GenerateAnalyticsFor(store, kv, GetActiveUsers(store, fault),
                         PairFaults(fault), t)

(***************************************************************************)
(* TaskHandler: one action per endpoint, the handler together with the     *)
(* service and repository calls it makes.  The requester u is the user id  *)
(* the auth middleware put into the context.                               *)
(***************************************************************************)
\* status of GetTask, UpdateTask and DeleteTask for a service error
TaskStatusCode(err) ==
    IF err = NoErr THEN 200
    ELSE IF err = ErrTaskNotFound THEN 404
    ELSE IF err = ErrAccessDenied THEN 403
    ELSE 500

HandlerCreateTask(u, body, fault) ==
    /\ nextId <= MaxTasks
    /\ LET id == IF BoundID(body) = 0 THEN nextId ELSE BoundID(body)
           task == Task(id, BoundUserID(body), body, now)
           r == CreateTask(tasks, u, task, fault, now)
           code == IF r.err = NoErr THEN 201
                   ELSE IF r.err = ErrInvalidTaskData THEN 400 ELSE 500
       IN  /\ tasks' = r.store
           /\ nextId' = IF r.err = NoErr /\ BoundID(body) = 0
                        THEN nextId + 1 ELSE nextId
           /\ lastOp' = Op("create", u, IF r.err = NoErr THEN id ELSE 0,
                           fault, r.err, code, body, r.out, <<>>, r.calls)
    /\ UNCHANGED <<cache, now>>

HandlerGetTask(u, id, fault) ==
    /\ LET r == GetByID(tasks, id, u, fault)
       IN  lastOp' = Op("get", u, id, fault, r.err, TaskStatusCode(r.err),
                        EmptyBody, r.out, <<>>, r.calls)
    /\ UNCHANGED <<tasks, cache, now, nextId>>

\* the due_date query parameter: absent, an RFC3339 time, or unparsable
NoDueQuery == [raw |-> "", t |-> ZeroTime]

DueQueries ==
    {NoDueQuery, [raw |-> "rfc3339", t |-> StartTime + Day],
     [raw |-> "garbage", t |-> ZeroTime]}

FilterStatuses == {"", StatusDone}

FilterPriorities == {"", PriorityHigh}

Searches == {EmptyText, <<"A">>}

\* the models.TaskFilters GetTasks builds from the query and the requester
ListFilters(u, status, priority, due, search) ==
    Filters(status, priority, IF due.raw = "" THEN <<>> ELSE <<due.t>>, u,
            search)

HandlerGetTasks(u, status, priority, due, search, fault) ==
    /\ IF due.raw # "" /\ due.raw # "rfc3339"
       THEN lastOp' = Op("list", u, 0, "none", NoErr, 400, EmptyBody, <<>>,
                         <<>>, 0)
       ELSE \E r \in GetAll(tasks, u,
                      ListFilters(u, status, priority, due, search),
                      fault) :
               lastOp' = Op("list", u, 0, fault, r.err,
                            IF r.err = NoErr THEN 200 ELSE 500, EmptyBody,
                            r.out, <<>>, r.calls)
    /\ UNCHANGED <<tasks, cache, now, nextId>>

HandlerUpdateTask(u, id, body, fault) ==
    /\ LET task == Task(id, BoundUserID(body), body, now)
           r == UpdateUserTask(tasks, u, task, fault, now)
       IN  /\ tasks' = r.store
           /\ lastOp' = Op("update", u, id, fault, r.err,
                           TaskStatusCode(r.err),
                           IF r.err = NoErr THEN body ELSE EmptyBody,
                           r.out, <<>>, r.calls)
    /\ UNCHANGED <<cache, now, nextId>>

HandlerDeleteTaskInvalidating(u, id, fault) ==
    /\ LET r == Delete(tasks, id, u, fault)
       IN  /\ tasks' = r.store
           /\ lastOp' = Op("delete", u, id, fault, r.err,
                           TaskStatusCode(r.err), EmptyBody, <<>>, <<>>,
                           r.calls)
           /\ cache' = IF r.err = NoErr
                       THEN [k \in {k \in DOMAIN cache : k[2] # u} |->
                                cache[k]]
                       ELSE cache
    /\ UNCHANGED <<now, nextId>>

HandlerDeleteTask(u, id, fault) ==
    /\ LET r == Delete(tasks, id, u, fault)
       IN  /\ tasks' = r.store
           /\ lastOp' = Op("delete", u, id, fault, r.err,
                           TaskStatusCode(r.err), EmptyBody, <<>>, <<>>,
                           r.calls)
    /\ UNCHANGED <<cache, now, nextId>>

\* bodies of an import batch
ImportBodies ==
    {b \in Bodies : /\ b.description = EmptyText
                    /\ b.priority = ""
                    /\ b.due_date = ZeroTime}

HandlerImportTasks(u, batch, failAt) ==
    /\ nextId + Len(batch) - 1 <= MaxTasks
    /\ failAt \in 0..Len(batch)
    /\ LET r == Import(tasks, u, batch, failAt, nextId, now)
       IN  /\ tasks' = r.store
           /\ nextId' = nextId + (IF failAt = 0 THEN Len(batch)
                                  ELSE failAt - 1)
           /\ lastOp' = Op("import", u, 0,
                           IF failAt = 0 THEN "none" ELSE "write", r.err,
                           IF r.err = NoErr THEN 200 ELSE 500, EmptyBody,
                           <<>>, <<>>, r.calls)
    /\ UNCHANGED <<cache, now>>

HandlerExportTasks(u, fault) ==
    /\ \E r \in Export(tasks, u, fault) :
          lastOp' = Op("export", u, 0, fault, r.err,
                       IF r.err = NoErr THEN 200 ELSE 500, EmptyBody,
                       r.out, <<>>, r.calls)
    /\ UNCHANGED <<tasks, cache, now, nextId>>

\* the period query parameter: absent, a period, or anything else
PeriodQueries == {"", "day", "week", "year"}

IsValidPeriodOrYear(period) ==
    period \in {"day", "week", "month", "year"}

IsValidPeriod(period) ==
    period \in {"day", "week", "month"}

ErrInvalidPeriod == "Invalid period"

HandlerGetAnalytics(u, query, fault) ==
    /\ LET period == IF query = "" THEN "week" ELSE query
       IN  IF ~IsValidPeriod(period)
           THEN lastOp' = [Op("analytics", u, 0, "none", ErrInvalidPeriod,
                              400, EmptyBody, <<>>, <<>>, 0)
                           EXCEPT !.period = period, !.query = query]
                /\ cache' = cache
           ELSE \E r \in GetUserAnalytics(tasks, cache, u, period, fault,
                                          now) :
                   /\ cache' = r.kv
                   /\ lastOp' = [Op("analytics", u, 0, fault, r.err,
                                    IF r.err = NoErr THEN 200 ELSE 500,
                                    EmptyBody, <<>>, r.out, r.calls)
                                 EXCEPT !.period = period, !.query = query]
    /\ UNCHANGED <<tasks, now, nextId>>

(***************************************************************************)
(* BackgroundWorker: Start, the two loops and Stop.  A loop is at its      *)
(* select, in an iteration, or has returned; a caller of Stop is entering  *)
(* stopOnce.Do, about to close the channel, in wg.Wait, blocked on the     *)
(* Once while another caller runs it, or has returned.                     *)
(***************************************************************************)
\* most ticks the two tickers deliver
MaxIterations == 2

WorkerFaults == {"none", "read"}

Start ==
    /\ ~worker.started
    /\ worker' = [worker EXCEPT !.started = TRUE,
                                !.wg = @ + 2,
                                !.loop = [g \in Loops |-> "select"]]
    /\ UNCHANGED <<tasks, cache, now, nextId, lastOp, completedLog, auth,
                   inflight>>

\* the select of a loop receives from its ticker
LoopTick(g) ==
    /\ worker.loop[g] = "select"
    /\ worker.iterations < MaxIterations
    /\ worker' = [worker EXCEPT !.loop[g] = "iterating",
                                !.iterations = @ + 1]
    /\ UNCHANGED <<tasks, cache, now, nextId, lastOp, completedLog, auth,
                   inflight>>

SweepIterateReturningOnError(fault) ==
    /\ worker.loop["sweep"] = "iterating"
    /\ \E r \in CleanupExpiredTasks(tasks, fault, now) :
          /\ tasks' = r.store
          /\ lastOp' = [Op("sweep", "", 0, fault, r.err, 0, EmptyBody,
                           r.out, <<>>, r.calls)
                        EXCEPT !.deletes = r.deletes]
          /\ worker' = IF r.err = NoErr
                        THEN [worker EXCEPT !.loop["sweep"] = "select"]
                        ELSE [worker EXCEPT !.loop["sweep"] = "done",
                                            !.wg = @ - 1]
    /\ UNCHANGED <<cache, now, nextId, completedLog, auth, inflight>>

\* the sweep loop runs cleanupExpiredTasks and is back at its select
SweepIterate(fault) ==
    /\ worker.loop["sweep"] = "iterating"
    /\ \E r \in CleanupExpiredTasks(tasks, fault, now) :
          /\ tasks' = r.store
          /\ lastOp' = [Op("sweep", "", 0, fault, r.err, 0, EmptyBody,
                           r.out, <<>>, r.calls)
                        EXCEPT !.deletes = r.deletes]
    /\ worker' = [worker EXCEPT !.loop["sweep"] = "select"]
    /\ UNCHANGED <<cache, now, nextId, completedLog, auth, inflight>>

\* the refresh loop runs generateAnalytics and is back at its select
RefreshIterate(fault) ==
    /\ worker.loop["refresh"] = "iterating"
    /\ LET r == GenerateAnalytics(tasks, cache, fault, now)
       IN  /\ cache' = r.kv
           /\ lastOp' = [Op("refresh", "", 0, fault, r.err, 0, EmptyBody,
                            <<>>, <<>>, r.calls)
                         EXCEPT !.active = r.active, !.pairs = r.rounds]
    /\ worker' = [worker EXCEPT !.loop["refresh"] = "select"]
    /\ UNCHANGED <<tasks, now, nextId, completedLog, auth, inflight>>

LoopStopCancelling(g) ==
    /\ worker.loop[g] \in {"select", "iterating"}
    /\ worker.stopChan = "closed"
    /\ worker' = [worker EXCEPT !.loop[g] = "done", !.wg = @ - 1]
    /\ UNCHANGED <<tasks, cache, now, nextId, lastOp, completedLog, auth,
                   inflight>>

\* the select of a loop receives from the closed stop channel
LoopStop(g) ==
    /\ worker.loop[g] = "select"
    /\ worker.stopChan = "closed"
    /\ worker' = [worker EXCEPT !.loop[g] = "done", !.wg = @ - 1]
    /\ UNCHANGED <<tasks, cache, now, nextId, lastOp, completedLog, auth,
                   inflight>>

\* Start called on a worker that was started before: nothing in Start
\* looks at what earlier calls did, so two more goroutines are added, each
\* with a ticker of its own
StartAgain(n) ==
    /\ worker.started
    /\ \A g \in Loops : worker.more[n][g] = "none"
    /\ \A k \in LaterStarts : k < n => worker.more[k]["sweep"] # "none"
    /\ worker' = [worker EXCEPT !.wg = @ + 2,
                                !.more[n] = [g \in Loops |-> "select"]]
    /\ UNCHANGED <<tasks, cache, now, nextId, lastOp, completedLog, auth,
                   inflight>>

\* the select of a loop of a later Start receives from its ticker
LaterTick(n, g) ==
    /\ worker.more[n][g] = "select"
    /\ worker.iterations < MaxIterations
    /\ worker' = [worker EXCEPT !.more[n][g] = "iterating",
                                !.iterations = @ + 1]
    /\ UNCHANGED <<tasks, cache, now, nextId, lastOp, completedLog, auth,
                   inflight>>

\* a sweep loop of a later Start runs cleanupExpiredTasks
LaterSweepIterate(n, fault) ==
    /\ worker.more[n]["sweep"] = "iterating"
    /\ \E r \in CleanupExpiredTasks(tasks, fault, now) :
          /\ tasks' = r.store
          /\ lastOp' = [Op("sweep", "", 0, fault, r.err, 0, EmptyBody,
                           r.out, <<>>, r.calls)
                        EXCEPT !.deletes = r.deletes]
    /\ worker' = [worker EXCEPT !.more[n]["sweep"] = "select"]
    /\ UNCHANGED <<cache, now, nextId, completedLog, auth, inflight>>

\* the refresh loop of the n-th Start runs generateAnalytics and is back at
\* its select
RefreshIterateOf(n, fault) ==
    /\ IF n = 1 THEN worker.loop["refresh"] = "iterating"
       ELSE worker.more[n]["refresh"] = "iterating"
    /\ LET r == GenerateAnalytics(tasks, cache, fault, now)
       IN  /\ cache' = r.kv
           /\ lastOp' = [Op("refresh", "", 0, fault, r.err, 0, EmptyBody,
                            <<>>, <<>>, r.calls)
                         EXCEPT !.active = r.active, !.pairs = r.rounds]
    /\ worker' = IF n = 1
                 THEN [worker EXCEPT !.loop["refresh"] = "select"]
                 ELSE [worker EXCEPT !.more[n]["refresh"] = "select"]
    /\ UNCHANGED <<tasks, now, nextId, completedLog, auth, inflight>>

\* the select of a loop of a later Start receives from the closed channel
LaterStop(n, g) ==
    /\ worker.more[n][g] = "select"
    /\ worker.stopChan = "closed"
    /\ worker' = [worker EXCEPT !.more[n][g] = "done", !.wg = @ - 1]
    /\ UNCHANGED <<tasks, cache, now, nextId, lastOp, completedLog, auth,
                   inflight>>

StopEnterWithoutOnce(c) ==
    /\ worker.started
    /\ worker.stop[c] = "idle"
    /\ worker' = [worker EXCEPT !.stopOnce = "running",
                                !.stop[c] = "closing"]
    /\ UNCHANGED <<tasks, cache, now, nextId, lastOp, completedLog, auth,
                   inflight>>

\* Stop enters stopOnce.Do: done already, the first to come, or neither
StopEnter(c) ==
    /\ worker.started
    /\ worker.stop[c] = "idle"
    /\ worker' =
          IF worker.stopOnce = "done"
          THEN [worker EXCEPT !.stop[c] = "returned"]
          ELSE IF worker.stopOnce = "new"
               THEN [worker EXCEPT !.stopOnce = "running",
                                   !.stop[c] = "closing"]
               ELSE [worker EXCEPT !.stop[c] = "blocked"]
    /\ UNCHANGED <<tasks, cache, now, nextId, lastOp, completedLog, auth,
                   inflight>>

\* close(w.stopChan)
StopClose(c) ==
    /\ worker.stop[c] = "closing"
    /\ worker' = [worker EXCEPT !.stopChan = "closed",
                                !.closes = @ + 1,
                                !.stop[c] = "waiting"]
    /\ UNCHANGED <<tasks, cache, now, nextId, lastOp, completedLog, auth,
                   inflight>>

StopWithoutWait(c) ==
    /\ worker.stop[c] = "waiting"
    /\ worker' = [worker EXCEPT !.stopOnce = "done",
                                !.stop[c] = "returned"]
    /\ UNCHANGED <<tasks, cache, now, nextId, lastOp, completedLog, auth,
                   inflight>>

\* w.wg.Wait() returns, then stopOnce.Do and Stop
StopWait(c) ==
    /\ worker.stop[c] = "waiting"
    /\ worker.wg = 0
    /\ worker' = [worker EXCEPT !.stopOnce = "done",
                                !.stop[c] = "returned"]
    /\ UNCHANGED <<tasks, cache, now, nextId, lastOp, completedLog, auth,
                   inflight>>

\* a caller that found the Once running gets on when it is done
StopUnblock(c) ==
    /\ worker.stop[c] = "blocked"
    /\ worker.stopOnce = "done"
    /\ worker' = [worker EXCEPT !.stop[c] = "returned"]
    /\ UNCHANGED <<tasks, cache, now, nextId, lastOp, completedLog, auth,
                   inflight>>

\* the passing of time; Redis drops the entries whose TTL has run out
Tick ==
    /\ now + TickStep <= MaxTime
    /\ now' = now + TickStep
    /\ cache' = [k \in {k \in DOMAIN cache : cache[k].expire > now + TickStep}
                   |-> cache[k]]
    /\ UNCHANGED <<tasks, nextId, lastOp>>

(***************************************************************************)
(* Authentication: the users table, AuthService, the auth handlers and the *)
(* middleware in front of the task routes.  Token expiry is counted in     *)
(* minutes: the wall clock is now hours and auth.minute minutes.           *)
(***************************************************************************)

\* lifetime of a token in minutes
TokenTTL == 15

\* shortest password Register accepts
MinPasswordLen == 6

\* the server's signing key, and a key somebody else signs with
Secret == "secret"

OtherKey == "guess"

ErrInvalidEmail == "invalid email format"

ErrInvalidPassword == "password must be at least 6 characters"

ErrUserExists == "user already exists"

ErrInvalidCredentials == "invalid credentials"

ErrInvalidToken == "invalid token"

\* minutes the clock advances in one step, and how many such steps
MinuteStep == 5

MaxMinuteTicks == 3

MaxMinute == MinuteStep * MaxMinuteTicks

\* the wall clock in minutes
Clock == now * 60 + auth.minute

\* most tokens issued in a run
MaxTokens == 1

\* e-mail and password texts are sequences of characters
Letters == {"a", "b", "p", "q", "x"}

AddrSpecA == <<"a", "@", "x">>

AddrSpecB == <<"b", "@", "x">>

\* an address nobody registers
AddrSpecNobody == <<"x", "@", "x">>

\* "<a@x>": a name-addr with an empty display name
AngleAddrA == <<"<", "a", "@", "x", ">">>

\* "a": no domain
NoDomain == <<"a">>

Emails == {EmptyText, NoDomain, AddrSpecA, AddrSpecB, AngleAddrA}

Password(n, ch) == [i \in 1..n |-> ch]

Passwords ==
    {Password(0, "p"), Password(MinPasswordLen - 1, "p"),
     Password(MinPasswordLen, "p")}

RegisterRequests == {RegisterRequest(e, p) : e \in Emails, p \in Passwords}

\* ShouldBindJSON into models.RegisterRequest, as the API description
\* declares the request: both fields required, the password of at least six
\* characters
BindRegister(req) ==
    /\ req.email # EmptyText
    /\ req.password # EmptyText
    /\ Len(req.password) >= MinPasswordLen

\* ShouldBindJSON into models.LoginRequest: both fields required
BindLogin(req) == req.email # EmptyText /\ req.password # EmptyText

\* net/mail: a run of atom characters
IsAtom(s) == Len(s) > 0 /\ \A i \in 1..Len(s) : s[i] \in Letters

\* net/mail: addr-spec = local-part "@" domain
IsAddrSpec(s) ==
    \E i \in 1..Len(s) :
        /\ s[i] = "@"
        /\ IsAtom(SubSeq(s, 1, i - 1))
        /\ IsAtom(SubSeq(s, i + 1, Len(s)))

\* net/mail: a display name is a phrase of words
IsDisplayName(s) == \A i \in 1..Len(s) : s[i] \in Letters \cup {" "}

\* mail.ParseAddress succeeds on an addr-spec and on a name-addr,
\* [display-name] "<" addr-spec ">"
ParseAddress(s) ==
    \/ IsAddrSpec(s)
    \/ /\ Len(s) > 0
       /\ s[Len(s)] = ">"
       /\ \E i \in 1..Len(s) :
              /\ s[i] = "<"
              /\ IsDisplayName(SubSeq(s, 1, i - 1))
              /\ IsAddrSpec(SubSeq(s, i + 1, Len(s) - 1))

\* bcrypt: the hash verifies exactly the password it was made from
GenerateFromPassword(password) == [bcrypt |-> password]

CompareHashAndPassword(hash, password) == hash.bcrypt = password

NoUser == [id |-> "", email |-> EmptyText,
           password_hash |-> GenerateFromPassword(EmptyText), created_at |-> 0]

User(id, email, hash, t) ==
    [id |-> id, email |-> email, password_hash |-> hash, created_at |-> t]

\* UserRepository.Create: INSERT INTO users; id is the primary key and email
\* is UNIQUE
UserCreate(users, user, fault) ==
    IF fault = "write" THEN [err |-> ErrOther, users |-> users]
    ELSE IF \E u \in users : u.id = user.id \/ u.email = user.email
    THEN [err |-> ErrOther, users |-> users]
    ELSE [err |-> NoErr, users |-> users \cup {user}]

\* UserRepository.GetByEmail: SELECT ... WHERE email = $1; no row is an error
UserGetByEmail(users, email, fault) ==
    LET rows == {u \in users : u.email = email}
    IN  IF fault = "read" \/ rows = {}
        THEN [err |-> ErrOther, found |-> FALSE, user |-> NoUser]
        ELSE [err |-> NoErr, found |-> TRUE, user |-> CHOOSE u \in rows : TRUE]

RegisterIgnoringExisting(users, req, id, fault, t) ==
    IF ~ParseAddress(req.email) THEN [err |-> ErrInvalidEmail, users |-> users]
    ELSE IF Len(req.password) < MinPasswordLen
    THEN [err |-> ErrInvalidPassword, users |-> users]
    ELSE UserCreate(users,
                    User(id, req.email, GenerateFromPassword(req.password), t),
                    IF fault = "write" THEN fault ELSE "none")

RegisterWithoutEmailCheck(users, req, id, fault, t) ==
    IF Len(req.password) < MinPasswordLen
    THEN [err |-> ErrInvalidPassword, users |-> users]
    ELSE IF UserGetByEmail(users, req.email, fault).found
    THEN [err |-> ErrUserExists, users |-> users]
    ELSE UserCreate(users,
                    User(id, req.email, GenerateFromPassword(req.password), t),
                    IF fault = "write" THEN fault ELSE "none")

\* AuthService.Register: the e-mail parses, the password has six bytes or
\* more, no user is found for the e-mail (an error of the lookup is dropped),
\* then the user is inserted with a fresh id and the hash of the password
Register(users, req, id, fault, t) ==
    IF ~ParseAddress(req.email) THEN [err |-> ErrInvalidEmail, users |-> users]
    ELSE IF Len(req.password) < MinPasswordLen
    THEN [err |-> ErrInvalidPassword, users |-> users]
    ELSE IF UserGetByEmail(users, req.email, fault).found
    THEN [err |-> ErrUserExists, users |-> users]
    ELSE UserCreate(users,
                    User(id, req.email, GenerateFromPassword(req.password), t),
                    IF fault = "write" THEN fault ELSE "none")

\* AuthHandler.Register: the status of a service error
RegisterStatusCode(err) ==
    IF err = NoErr THEN 201
    ELSE IF err = ErrUserExists THEN 409
    ELSE IF err \in {ErrInvalidEmail, ErrInvalidPassword} THEN 400
    ELSE 500

\* a signed token: header algorithm, the key of its signature, its claims
Token(alg, key, userID, exp) ==
    [wellFormed |-> TRUE, alg |-> alg, key |-> key, user_id |-> userID,
     exp |-> exp]

\* a string that is no JWT
Garbage ==
    [wellFormed |-> FALSE, alg |-> "", key |-> "", user_id |-> "", exp |-> 0]

\* AuthService.generateToken
generateToken(userID, t) == Token("HS256", Secret, userID, t + TokenTTL)

LoginRevealingUnknownEmail(users, req, fault, t) ==
    LET r == UserGetByEmail(users, req.email, fault)
    IN  IF r.err # NoErr
        THEN [err |-> ErrOther, token |-> Garbage, user |-> ""]
        ELSE IF ~CompareHashAndPassword(r.user.password_hash, req.password)
        THEN [err |-> ErrInvalidCredentials, token |-> Garbage, user |-> ""]
        ELSE [err |-> NoErr, token |-> generateToken(r.user.id, t),
              user |-> r.user.id]

\* AuthService.Login
Login(users, req, fault, t) ==
    LET r == UserGetByEmail(users, req.email, fault)
    IN  IF r.err # NoErr
        THEN [err |-> ErrInvalidCredentials, token |-> Garbage, user |-> ""]
        ELSE IF ~CompareHashAndPassword(r.user.password_hash, req.password)
        THEN [err |-> ErrInvalidCredentials, token |-> Garbage, user |-> ""]
        ELSE [err |-> NoErr, token |-> generateToken(r.user.id, t),
              user |-> r.user.id]

\* jwt.Parse with the service's key function: the token has three parts,
\* an HMAC algorithm, a signature made with the secret, and exp is later
\* than the clock
JwtParse(tok, t) ==
    /\ tok.wellFormed
    /\ tok.alg = "HS256"
    /\ tok.key = Secret
    /\ t < tok.exp

ValidateTokenIgnoringExpiry(tok, t) ==
    IF ~(tok.wellFormed /\ tok.alg = "HS256" /\ tok.key = Secret)
    THEN [err |-> ErrInvalidToken, user_id |-> ""]
    ELSE [err |-> NoErr, user_id |-> tok.user_id]

\* AuthService.ValidateToken
ValidateToken(tok, t) ==
    IF ~JwtParse(tok, t) THEN [err |-> ErrInvalidToken, user_id |-> ""]
    ELSE IF t > tok.exp THEN [err |-> ErrInvalidToken, user_id |-> ""]
    ELSE [err |-> NoErr, user_id |-> tok.user_id]

\* An Authorization header is the sequence of its words, as
\* strings.Split(authHeader, " ") yields them; no header is no word.  A word
\* is a plain text or the string of a token.
NoHeader == <<>>

Word(text) == [text |-> text, jwt |-> Garbage]

TokenString(tok) == [text |-> "jwt", jwt |-> tok]

\* AuthMiddleware: 401 and Abort, or user_id set and Next
AuthMiddleware(header, t) ==
    IF header = NoHeader THEN [status |-> 401, user_id |-> ""]
    ELSE IF Len(header) # 2 \/ header[1].text # "Bearer"
    THEN [status |-> 401, user_id |-> ""]
    ELSE LET v == ValidateToken(header[2].jwt, t)
         IN  IF v.err # NoErr THEN [status |-> 401, user_id |-> ""]
             ELSE [status |-> 200, user_id |-> v.user_id]

\* tokens nobody was issued: signed with another key, unsigned, no JWT
ForgedTokens ==
    {Token("HS256", OtherKey, u, (MaxTime + 1) * 60) : u \in Users}
        \cup {Token("none", "", u, (MaxTime + 1) * 60) : u \in Users}
        \cup {Garbage}

\* the tokens the server can sign
SignedTokens ==
    {generateToken(u, StartTime * 60 + k * MinuteStep) :
        u \in Users, k \in 0..MaxMinuteTicks}

\* the headers made of tokens toks
HeadersOf(toks) ==
    {NoHeader, <<Word("Bearer")>>}
        \cup {<<Word("Bearer"), TokenString(tok)>> : tok \in toks \cup ForgedTokens}
        \cup {<<Word("Basic"), TokenString(tok)>> : tok \in toks}
        \cup {<<TokenString(tok)>> : tok \in toks}
        \cup {<<Word("Bearer"), TokenString(tok), Word("x")>> : tok \in toks}

\* a client holds the tokens Login answered with, and no other signed one
IssuedTokens == {i.token : i \in auth.issued}

Headers == HeadersOf(IssuedTokens)

\* uuid.New: an id no user has
NewUserId == CHOOSE u \in Users : \A v \in auth.users : v.id # u

\* POST /api/auth/register
HandlerRegister(req, fault) ==
    /\ Cardinality(auth.users) < Cardinality(Users)
    /\ LET bound == BindRegister(req)
           r == Register(auth.users, req, NewUserId, fault, Clock)
           code == IF ~bound THEN 400 ELSE RegisterStatusCode(r.err)
       IN  /\ auth' = IF bound THEN [auth EXCEPT !.users = r.users] ELSE auth
           /\ lastOp' = [Op("register",
                            IF bound /\ r.err = NoErr THEN NewUserId ELSE "",
                            0, fault, IF bound THEN r.err ELSE ErrOther, code,
                            EmptyBody, <<>>, <<>>, 0)
                            EXCEPT !.req = req]
    /\ UNCHANGED <<tasks, cache, now, nextId, completedLog, worker, inflight>>

\* AuthHandler.Login: the body written with each status
LoginResponse(code, token) ==
    IF code = 200 THEN Response("", <<token>>)
    ELSE IF code = 400 THEN Response("Invalid request body", <<>>)
    ELSE IF code = 401 THEN Response("Invalid credentials", <<>>)
    ELSE Response("Failed to login user", <<>>)

\* POST /api/auth/login
HandlerLogin(req, fault) ==
    /\ Cardinality(auth.issued) < MaxTokens
    /\ LET bound == BindLogin(req)
           r == Login(auth.users, req, fault, Clock)
           code == IF ~bound THEN 400
                   ELSE IF r.err = NoErr THEN 200
                   ELSE IF r.err = ErrInvalidCredentials THEN 401 ELSE 500
       IN  /\ auth' = IF bound /\ r.err = NoErr
                      THEN [auth EXCEPT !.issued = @ \cup
                               {[token |-> r.token, user |-> r.user,
                                 at |-> Clock]}]
                      ELSE auth
           /\ lastOp' = [Op("login", IF bound THEN r.user ELSE "", 0, fault,
                            IF bound THEN r.err ELSE ErrOther, code,
                            EmptyBody, <<>>, <<>>, 0)
                            EXCEPT !.req = req,
                                   !.resp = LoginResponse(code, r.token)]
    /\ UNCHANGED <<tasks, cache, now, nextId, completedLog, worker, inflight>>

\* a request to a route of the /api/tasks group: the middleware, then the
\* route's handler for the user the middleware set
TasksRoute(header, route) ==
    /\ header \in Headers
    /\ auth' = [auth EXCEPT !.header = header]
    /\ LET v == AuthMiddleware(header, Clock)
       IN  IF v.status = 401
           THEN /\ lastOp' = Op("unauthorized", "", 0, "none", ErrInvalidToken,
                                401, EmptyBody, <<>>, <<>>, 0)
                /\ UNCHANGED <<tasks, cache, now, nextId>>
           ELSE IF route = "create"
           THEN HandlerCreateTask(v.user_id, [EmptyBody EXCEPT !.title = <<"a">>],
                                  "none")
           ELSE HandlerExportTasks(v.user_id, "none")
    /\ UNCHANGED <<completedLog, worker, inflight>>

\* minutes pass within the hour
MinuteTick ==
    /\ auth.minute + MinuteStep <= MaxMinute
    /\ auth' = [auth EXCEPT !.minute = @ + MinuteStep]
    /\ UNCHANGED <<tasks, cache, now, nextId, lastOp, completedLog, worker,
                   inflight>>

(***************************************************************************)
(* The task endpoints with two users, from an empty table.  Request bodies *)
(* vary in title (given or not) and status; the clock stands still.  The   *)
(* analytics endpoint only reads the tasks table and the task endpoints    *)
(* never touch the cache, so the tables reachable here are the tables      *)
(* reachable with analytics requests in between.                           *)
(***************************************************************************)
GuardBodies ==
    {b \in Bodies : /\ b.description = EmptyText
                    /\ b.priority = ""
                    /\ b.due_date = ZeroTime
                    /\ b.status \in {"", StatusDone}}

\* import batches here hold titled tasks only
GuardBatches ==
    UNION {[1..n -> {b \in GuardBodies : b.title # EmptyText}] :
              n \in 0..MaxImport}

Requests ==
    \/ \E u \in Users, b \in GuardBodies, f \in {"none", "write"} :
          HandlerCreateTask(u, b, f)
    \/ \E u \in Users, id \in TaskIds, f \in {"none", "read"} :
          HandlerGetTask(u, id, f)
    \/ \E u \in Users, st \in FilterStatuses, pr \in FilterPriorities,
          se \in Searches :
          HandlerGetTasks(u, st, pr, NoDueQuery, se, "none")
    \/ \E u \in Users, d \in DueQueries, f \in {"none", "read"} :
          HandlerGetTasks(u, "", "", d, EmptyText, f)
    \/ \E u \in Users, id \in TaskIds, b \in GuardBodies,
          f \in {"none", "write"} :
          HandlerUpdateTask(u, id, b, f)
    \/ \E u \in Users, id \in TaskIds :
          HandlerUpdateTask(u, id, EmptyBody, "read")
    \/ \E u \in Users, id \in TaskIds, f \in Faults :
          HandlerDeleteTask(u, id, f)
    \/ \E u \in Users, batch \in GuardBatches :
          \E failAt \in 0..Len(batch) : HandlerImportTasks(u, batch, failAt)
    \/ \E u \in Users, f \in {"none", "read"} : HandlerExportTasks(u, f)

Next == Requests /\ UNCHANGED <<completedLog, worker, auth, inflight>>

Spec == Init /\ [][Next]_vars

(***************************************************************************)
(* One task of one user over time: request bodies vary in every field and  *)
(* the clock advances.                                                     *)
(***************************************************************************)
PatchUser == "u1"

\* the history variable after a response: the first completed timestamp a
\* successful update to done reported for the task stays on record
LogCompleted(log, op) ==
    IF /\ op.kind = "update"
       /\ op.err = NoErr
       /\ op.body.status = StatusDone
       /\ log[op.id] = <<>>
    THEN [log EXCEPT ![op.id] = op.tasks[1].completed_at]
    ELSE log

PatchRequests ==
    \/ \E b \in Bodies, f \in {"none", "write"} :
          nextId = 1 /\ HandlerCreateTask(PatchUser, b, f)
    \/ \E b \in ImportBodies :
          nextId = 1 /\ HandlerImportTasks(PatchUser, <<b>>, 0)
    \/ \E f \in {"none", "read"} : HandlerGetTask(PatchUser, 1, f)
    \/ \E b \in Bodies : HandlerUpdateTask(PatchUser, 1, b, "none")
    \/ \E f \in {"read", "write"} :
          HandlerUpdateTask(PatchUser, 1, EmptyBody, f)
    \/ \E f \in Faults : HandlerDeleteTask(PatchUser, 1, f)
    \/ Tick

NextPatch ==
    /\ PatchRequests
    /\ completedLog' = LogCompleted(completedLog, lastOp')
    /\ UNCHANGED <<worker, auth, inflight>>

SpecPatch == Init /\ [][NextPatch]_vars

(***************************************************************************)
(* The analytics endpoint over a tasks table that holds rows when the      *)
(* service starts.  The rows are drawn from a few that differ in what the  *)
(* computation looks at: owner, status, priority, due date against the     *)
(* clock, completed_at against due_date.                                   *)
(***************************************************************************)
\* most rows in the table at the start
MaxSeed == 3

SeedRow(id, user, status, priority, due, completed) ==
    [id |-> id, title |-> <<"a">>, description |-> EmptyText,
     status |-> status, priority |-> priority, user_id |-> user,
     due_date |-> due, created_at |-> StartTime - 2 * Day,
     updated_at |-> StartTime - 2 * Day, completed_at |-> completed]

SeedRows ==
    {\* done 12 hours after creation, a day before it was due
     SeedRow(1, "u1", StatusDone, PriorityHigh, StartTime - Day + 12,
             <<StartTime - 2 * Day + 12>>),
     \* done 33 hours after creation, at the very time it was due
     SeedRow(2, "u1", StatusDone, PriorityLow, StartTime - Day + 9,
             <<StartTime - Day + 9>>),
     \* pending and overdue
     SeedRow(3, "u1", StatusPending, PriorityMedium, StartTime - Day, <<>>),
     \* in progress, due one clock step after the start
     SeedRow(4, "u1", StatusInProgress, PriorityHigh, StartTime + TickStep,
             <<>>),
     \* done, without a completed timestamp
     SeedRow(5, "u1", StatusDone, PriorityMedium, StartTime - Day, <<>>),
     \* another user's pending and overdue task
     SeedRow(6, "u2", StatusPending, PriorityLow, StartTime - Day, <<>>)}

InitSeeded ==
    /\ tasks \in {rows \in SUBSET SeedRows : Cardinality(rows) <= MaxSeed}
    /\ cache = <<>>
    /\ now = StartTime
    /\ nextId = 1
    /\ lastOp = NoOp
    /\ completedLog = [id \in TaskIds |-> <<>>]
    /\ worker = NewBackgroundWorker
    /\ auth = NoAuth
    /\ inflight = NoRequests

NextSeeded ==
    /\ \/ \E q \in PeriodQueries, f \in AnalyticsFaults :
             HandlerGetAnalytics("u1", q, f)
       \/ HandlerGetAnalytics("u2", "week", "none")
       \/ Tick
    /\ UNCHANGED <<completedLog, worker, auth, inflight>>

SpecSeeded == InitSeeded /\ [][NextSeeded]_vars

(***************************************************************************)
(* The background worker next to the analytics endpoint, over a tasks      *)
(* table that holds rows when the service starts: rows long overdue,       *)
(* lately overdue, and due on the very day the sweep asks for.             *)
(***************************************************************************)
WorkerSeedRows ==
    {\* due 10 days ago
     SeedRow(7, "u1", StatusPending, PriorityMedium,
             StartTime - 10 * Day, <<>>),
     \* due 3 days ago
     SeedRow(8, "u1", StatusInProgress, PriorityHigh,
             StartTime - 3 * Day, <<>>),
     \* due 7 days ago to the hour
     SeedRow(9, "u2", StatusPending, PriorityLow,
             StartTime - ExpiryDays * Day, <<>>)}

InitWorker ==
    /\ tasks \in {rows \in SUBSET WorkerSeedRows :
                     Cardinality(rows) <= MaxSeed}
    /\ cache = <<>>
    /\ now = StartTime
    /\ nextId = 1
    /\ lastOp = NoOp
    /\ completedLog = [id \in TaskIds |-> <<>>]
    /\ worker = NewBackgroundWorker
    /\ auth = NoAuth
    /\ inflight = NoRequests

WorkerSteps ==
    \/ Start
    \/ \E g \in Loops : LoopTick(g)
    \/ \E f \in WorkerFaults : SweepIterate(f)
    \/ \E f \in WorkerFaults : RefreshIterate(f)
    \/ \E g \in Loops : LoopStop(g)
    \/ \E c \in Stoppers : StopEnter(c)
    \/ \E c \in Stoppers : StopClose(c)
    \/ \E c \in Stoppers : StopWait(c)
    \/ \E c \in Stoppers : StopUnblock(c)

(***************************************************************************)
(* cleanupExpiredTasks over a task service whose GetAll returns tasks, as  *)
(* the one of TestBackgroundWorker_CleanupExpiredTasks does: any of the    *)
(* rows of the table, of any owner, in any order.                          *)
(***************************************************************************)
\* the sequences without repetition of rows of a set
Listings(rows) ==
    UNION {{l \in [1..n -> rows] :
               \A i, j \in 1..n : l[i] = l[j] => i = j} :
           n \in 0..Cardinality(rows)}

\* the query returns found; faults[i] befalls the i-th Delete
CleanupFound(found, faults) ==
    /\ found \in Listings(tasks)
    /\ faults \in [1..Len(found) -> Faults]
    /\ LET r == DeleteFrom(tasks, found, 1, faults, 1, <<>>)
       IN  /\ tasks' = r.store
           /\ lastOp' = [Op("sweep", "", 0, "none", r.err, 0, EmptyBody,
                            r.out, <<>>, r.calls)
                         EXCEPT !.deletes = r.deletes]
    /\ UNCHANGED <<cache, now, nextId, completedLog, worker, auth, inflight>>

NextSweepBatch ==
    \E found \in Listings(WorkerSeedRows) :
        \E faults \in [1..Len(found) -> Faults] : CleanupFound(found, faults)

SpecSweepBatch == InitWorker /\ [][NextSweepBatch]_vars

(***************************************************************************)
(* One user asks for the snapshots of all three periods over a seeded      *)
(* table while the clock advances.                                         *)
(***************************************************************************)
NextPeriods ==
    /\ \/ \E i \in 1..Len(RefreshPeriods) :
             HandlerGetAnalytics("u1", RefreshPeriods[i], "none")
       \/ Tick
    /\ UNCHANGED <<completedLog, worker, auth, inflight>>

SpecPeriods == InitSeeded /\ [][NextPeriods]_vars

(***************************************************************************)
(* generateAnalytics over a task service whose GetActiveUsers returns      *)
(* users, as the one of TestBackgroundWorker_GenerateAnalytics does, with  *)
(* a failure or none for each (user, period) round.                        *)
(***************************************************************************)
RoundFaults == {"none", "read", "cacheSet"}

\* the ways for no round, or for one round, of an iteration to fail
RoundFaultings ==
    {faults \in [Users \X {"day", "week", "month"} -> RoundFaults] :
        \E pair \in DOMAIN faults :
            \A other \in DOMAIN faults \ {pair} : faults[other] = "none"}

\* GetActiveUsers answers with users, or fails if listFault is "read"
RefreshActive(users, listFault, faults) ==
    /\ LET active == IF listFault = "read"
                     THEN [err |-> ErrOther, users |-> {}]
                     ELSE [err |-> NoErr, users |-> users]
           r == GenerateAnalyticsFor(tasks, cache, active, faults, now)
       IN  /\ cache' = r.kv
           /\ lastOp' = [Op("refresh", "", 0, listFault, r.err, 0,
                            EmptyBody, <<>>, <<>>, r.calls)
                         EXCEPT !.active = r.active, !.pairs = r.rounds]
    /\ UNCHANGED <<tasks, now, nextId, completedLog, worker, auth, inflight>>

\* the table holds tasks of both users
InitRefreshBatch ==
    /\ tasks = WorkerSeedRows
    /\ cache = <<>>
    /\ now = StartTime
    /\ nextId = 1
    /\ lastOp = NoOp
    /\ completedLog = [id \in TaskIds |-> <<>>]
    /\ worker = NewBackgroundWorker
    /\ auth = NoAuth
    /\ inflight = NoRequests

NextRefreshBatch ==
    \E users \in SUBSET Users, listFault \in {"none", "read"},
       faults \in RoundFaultings :
       RefreshActive(users, listFault, faults)

SpecRefreshBatch == InitRefreshBatch /\ [][NextRefreshBatch]_vars

\* main calls Start once (src/cmd/app/main.go:95); the steps above are those
\* of the server's worker.  The worker as an object, Start called again:
RestartSteps ==
    \/ Start
    \/ \E n \in LaterStarts : StartAgain(n)
    \/ \E g \in Loops : LoopTick(g)
    \/ \E n \in LaterStarts, g \in Loops : LaterTick(n, g)
    \/ \E f \in WorkerFaults : SweepIterate(f)
    \/ \E n \in LaterStarts, f \in WorkerFaults : LaterSweepIterate(n, f)
    \/ \E n \in {1} \cup LaterStarts, f \in WorkerFaults :
          RefreshIterateOf(n, f)
    \/ \E g \in Loops : LoopStop(g)
    \/ \E n \in LaterStarts, g \in Loops : LaterStop(n, g)
    \/ \E c \in Stoppers : StopEnter(c)
    \/ \E c \in Stoppers : StopClose(c)
    \/ \E c \in Stoppers : StopWait(c)
    \/ \E c \in Stoppers : StopUnblock(c)

SpecRestart == InitWorker /\ [][RestartSteps]_vars

NextWorker ==
    \/ WorkerSteps
    \/ /\ \/ HandlerGetAnalytics("u1", "week", "none")
          \/ Tick
       /\ UNCHANGED <<completedLog, worker, auth, inflight>>

SpecWorker == InitWorker /\ [][NextWorker]_vars

\* the Go scheduler runs every goroutine that can take a step, and the
\* store and cache calls of an iteration return
WorkerFairness ==
    /\ WF_vars(\E f \in WorkerFaults : SweepIterate(f))
    /\ WF_vars(\E f \in WorkerFaults : RefreshIterate(f))
    /\ WF_vars(\E g \in Loops : LoopStop(g))
    /\ WF_vars(\E c \in Stoppers : StopClose(c))
    /\ WF_vars(\E c \in Stoppers : StopWait(c))
    /\ WF_vars(\E c \in Stoppers : StopUnblock(c))

\* the worker on its own, every goroutine getting its turn
SpecWorkerFair == InitWorker /\ [][WorkerSteps]_vars /\ WorkerFairness

(***************************************************************************)
(* Task mutations next to the analytics endpoint and the refresh loop: one *)
(* user creates, imports, updates and deletes tasks and asks for the week  *)
(* snapshot while the clock advances and the refresh ticker fires.         *)
(***************************************************************************)
MutateUser == "u1"

\* bodies that add a pending and a done task to the counts
MutateBodies == {b \in GuardBodies : b.title # EmptyText}

MutateRequests ==
    \/ \E b \in MutateBodies : HandlerCreateTask(MutateUser, b, "none")
    \/ \E b \in MutateBodies : HandlerImportTasks(MutateUser, <<b>>, 0)
    \/ \E b \in MutateBodies : HandlerUpdateTask(MutateUser, 1, b, "none")
    \/ HandlerDeleteTask(MutateUser, 1, "none")
    \/ HandlerGetAnalytics(MutateUser, "week", "none")
    \/ Tick

NextMutate ==
    \/ MutateRequests /\ UNCHANGED <<completedLog, worker, auth, inflight>>
    \/ Start
    \/ LoopTick("refresh")
    \/ RefreshIterate("none")

SpecMutate == Init /\ [][NextMutate]_vars

(***************************************************************************)
(* Properties of the ownership guard                                       *)
(***************************************************************************)
(* Registration on its own: requests to /api/auth/register from an empty   *)
(* users table, with the users table failing to be read or written, or     *)
(* not.                                                                    *)
(***************************************************************************)
NextRegister ==
    \E req \in RegisterRequests, fault \in {"none", "read", "write"} :
        HandlerRegister(req, fault)

SpecRegister == Init /\ [][NextRegister]_vars

(***************************************************************************)
(* Login and the task routes behind the middleware, with two registered    *)
(* users, while minutes pass.                                              *)
(***************************************************************************)
RegisteredUsers ==
    {User("u1", AddrSpecA, GenerateFromPassword(Password(MinPasswordLen, "p")),
          StartTime * 60),
     User("u2", AddrSpecB, GenerateFromPassword(Password(MinPasswordLen, "p")),
          StartTime * 60)}

LoginRequests ==
    {RegisterRequest(e, p) :
        e \in {AddrSpecA, AddrSpecB, AddrSpecNobody},
        p \in {Password(MinPasswordLen, "p"), Password(MinPasswordLen, "q")}}

InitAuth ==
    /\ tasks = {}
    /\ cache = <<>>
    /\ now = StartTime
    /\ nextId = 1
    /\ lastOp = NoOp
    /\ completedLog = [id \in TaskIds |-> <<>>]
    /\ worker = NewBackgroundWorker
    /\ auth = [NoAuth EXCEPT !.users = RegisteredUsers]
    /\ inflight = NoRequests

NextAuth ==
    \/ \E req \in LoginRequests, fault \in {"none", "read"} :
           HandlerLogin(req, fault)
    \/ \E header \in HeadersOf(SignedTokens), route \in {"create", "export"} :
           TasksRoute(header, route)
    \/ MinuteTick

SpecAuth == InitAuth /\ [][NextAuth]_vars


(***************************************************************************)
GuardedKinds == {"get", "update", "delete"}

\* the row with the id the last request addressed, in a tasks table
Addressed(store, op) == {r \in store : r.id = op.id}

\* C1: GetUserTask, UpdateUserTask and DeleteUserTask on a task that is in
\* the store (and that the lookup returns) and is owned by another user end
\* with ErrAccessDenied / 403, never not-found or success, and leave the
\* tasks table unchanged.
C1_ForeignTaskDenied ==
    [][(/\ lastOp'.kind \in GuardedKinds
        /\ lastOp'.fault # "read"
        /\ \E r \in Addressed(tasks, lastOp') : r.user_id # lastOp'.user)
       => /\ lastOp'.err = ErrAccessDenied
          /\ lastOp'.http = 403
          /\ lastOp'.tasks = <<>>
          /\ tasks' = tasks]_vars

C1_Witness ==
    /\ lastOp.kind = "delete"
    /\ lastOp.err = ErrAccessDenied
    /\ lastOp.fault = "none"
    /\ \E r \in Addressed(tasks, lastOp) : r.user_id # lastOp.user

\* C2: GetUserTask, UpdateUserTask and DeleteUserTask on an id with no task
\* in the store end with ErrTaskNotFound / 404 for every requester, never
\* access denied or success, and leave the tasks table unchanged.
C2_MissingTaskNotFound ==
    [][(/\ lastOp'.kind \in GuardedKinds
        /\ Addressed(tasks, lastOp') = {})
       => /\ lastOp'.err = ErrTaskNotFound
          /\ lastOp'.http = 404
          /\ lastOp'.tasks = <<>>
          /\ tasks' = tasks]_vars

C2_Witness ==
    /\ lastOp.kind = "update"
    /\ lastOp.err = ErrTaskNotFound
    /\ lastOp.fault = "none"
    /\ Addressed(tasks, lastOp) = {}
    /\ tasks # {}

\* the rows GET /api/tasks answers requester u with, for query parameters
\* (st, pr, d, se) on a tasks table
RowsFor(store, u, st, pr, d, se) ==
    RepoGetAllRows(store, ListFilters(u, st, pr, d, se))

\* C3: the list GET /api/tasks and GET /api/tasks/export return to requester
\* U holds only tasks owned by U, whatever the filters and whatever tasks
\* other users own; a request of another user never changes what U is
\* answered.
C3_ListsHoldOwnTasksOnly ==
    [][/\ lastOp'.kind \in {"list", "export"} =>
             \A i \in 1..Len(lastOp'.tasks) :
                 lastOp'.tasks[i].user_id = lastOp'.user
       /\ \A u \in Users \ {lastOp'.user} :
             tasks' # tasks =>
             \A st \in FilterStatuses, pr \in FilterPriorities,
                d \in {q \in DueQueries : q.raw \in {"", "rfc3339"}},
                se \in Searches :
                 RowsFor(tasks', u, st, pr, d, se)
                     = RowsFor(tasks, u, st, pr, d, se)]_vars

C3_Witness ==
    /\ lastOp.kind = "list"
    /\ lastOp.err = NoErr
    /\ Len(lastOp.tasks) >= 1
    /\ \E r \in tasks : r.user_id # lastOp.user

(***************************************************************************)
(* Properties of update and of the stored fields                           *)
(***************************************************************************)
\* C4: a successful UpdateUserTask with patch P on stored task T overwrites
\* only the fields among title, description, status, priority and due date
\* that are non-empty in P; a field that is empty in P (an empty description
\* too) keeps its stored value, and id, owner and created timestamp are
\* unchanged.
C4_UpdateKeepsAbsentFields ==
    [][(lastOp'.kind = "update" /\ lastOp'.err = NoErr)
       => \A r \in Addressed(tasks, lastOp') :
            \E q \in Addressed(tasks', lastOp') :
              LET p == lastOp'.body
              IN  /\ q.title = IF p.title # EmptyText THEN p.title
                               ELSE r.title
                  /\ q.description = IF p.description # EmptyText
                                     THEN p.description ELSE r.description
                  /\ q.status = IF p.status # "" THEN p.status ELSE r.status
                  /\ q.priority = IF p.priority # "" THEN p.priority
                                  ELSE r.priority
                  /\ q.due_date = IF p.due_date # ZeroTime THEN p.due_date
                                  ELSE r.due_date
                  /\ q.id = r.id
                  /\ q.user_id = r.user_id
                  /\ q.created_at = r.created_at]_vars

\* C5: over the updates to one task, the first update that sets status to
\* done assigns the completed timestamp, and every later update that sets
\* status to done again reports the completed timestamp of that first one.
C5_CompletedAssignedOnce ==
    [][(/\ lastOp'.kind = "update"
        /\ lastOp'.err = NoErr
        /\ lastOp'.body.status = StatusDone)
       => lastOp'.tasks[1].completed_at =
              IF completedLog[lastOp'.id] = <<>> THEN <<now'>>
              ELSE completedLog[lastOp'.id]]_vars

\* C6: after any create, import, update or delete, every stored task whose
\* status is done has a completed timestamp, and a stored task gets a
\* completed timestamp only while its status is done (so a task that never
\* was done has none).
C6_CompletedIffDone ==
    [][/\ \A r \in tasks' : r.status = StatusDone => r.completed_at # <<>>
       /\ \A r \in tasks' :
             r.completed_at # <<>> =>
                 \/ r.status = StatusDone
                 \/ \E q \in tasks : /\ q.id = r.id
                                     /\ q.completed_at = r.completed_at]_vars

\* C7: after any sequence of CreateTask, ImportTasks and UpdateUserTask
\* calls every stored task has a non-empty title.
C7_TitlesNonEmpty ==
    \A r \in tasks : r.title # EmptyText

(***************************************************************************)
(* Properties of the analytics snapshot                                    *)
(***************************************************************************)
\* the rows of a user in the tasks table
OwnedBy(u) == {r \in tasks : r.user_id = u}

\* the done rows of a user that have a completed timestamp
DoneWithCompletion(u) ==
    {r \in OwnedBy(u) : r.status = StatusDone /\ r.completed_at # <<>>}

RECURSIVE SumHours(_)
SumHours(rows) ==
    IF rows = {}
    THEN 0
    ELSE LET r == CHOOSE x \in rows : TRUE
         IN  (r.completed_at[1] - r.created_at) + SumHours(rows \ {r})

\* the last request was an analytics request answered just now by computing
ComputedNow(op) ==
    /\ now' = now
    /\ op.kind = "analytics"
    /\ op.err = NoErr
    /\ op.queries = 1

\* C8: on a cache miss GetUserAnalytics returns statusCount[s] = the number
\* of the user's tasks with status s, priorityCount[p] = the number with
\* priority p, avgCompletionTime = the mean of completed - created in hours
\* over the done tasks with a completed timestamp, overdueTasks = the number
\* of non-done tasks due before now; with no task the three numbers are 0
\* and both maps are empty; with two done tasks and one pending overdue task
\* statusCount = {done: 2, pending: 1} and overdueTasks = 1.
C8_SnapshotOnMiss ==
    [][(/\ ComputedNow(lastOp')
        /\ lastOp'.fault # "cacheGet"
        /\ AnalyticsKey(lastOp'.user, lastOp'.period) \notin DOMAIN cache)
       => LET a == lastOp'.analytics[1]
              mine == OwnedBy(lastOp'.user)
              done == DoneWithCompletion(lastOp'.user)
              overdue == {r \in mine : /\ r.status # StatusDone
                                       /\ r.due_date < now}
          IN  /\ DOMAIN a.StatusCount = {r.status : r \in mine}
              /\ \A st \in DOMAIN a.StatusCount :
                    a.StatusCount[st] =
                        Cardinality({r \in mine : r.status = st})
              /\ DOMAIN a.PriorityCount = {r.priority : r \in mine}
              /\ \A pr \in DOMAIN a.PriorityCount :
                    a.PriorityCount[pr] =
                        Cardinality({r \in mine : r.priority = pr})
              /\ a.AvgCompletionTime.den > 0
              /\ a.AvgCompletionTime.num * Cardinality(done) =
                     a.AvgCompletionTime.den * SumHours(done)
              /\ done = {} => a.AvgCompletionTime = Float(0, 1)
              /\ a.OverdueTasks = Cardinality(overdue)
              /\ mine = {} =>
                    /\ a.StatusCount = EmptyMap
                    /\ a.PriorityCount = EmptyMap
                    /\ a.AvgCompletionTime = Float(0, 1)
                    /\ a.OnTimeCompletionRate = Float(0, 1)
                    /\ a.OverdueTasks = 0
              /\ (/\ Cardinality(mine) = 3
                  /\ Cardinality({r \in mine : r.status = StatusDone}) = 2
                  /\ Cardinality({r \in overdue :
                                     r.status = StatusPending}) = 1)
                 => /\ a.StatusCount =
                           [st \in {StatusDone, StatusPending} |->
                               IF st = StatusDone THEN 2 ELSE 1]
                    /\ a.OverdueTasks = 1]_vars

C8_Witness ==
    /\ lastOp.kind = "analytics"
    /\ lastOp.err = NoErr
    /\ lastOp.queries = 1
    /\ lastOp.fault = "none"
    /\ Cardinality(OwnedBy(lastOp.user)) = 3
    /\ Cardinality(DoneWithCompletion(lastOp.user)) = 2
    /\ lastOp.analytics[1].StatusCount =
           [st \in {StatusDone, StatusPending} |->
               IF st = StatusDone THEN 2 ELSE 1]
    /\ lastOp.analytics[1].OverdueTasks = 1
    /\ lastOp.analytics[1].AvgCompletionTime = [num |-> 45, den |-> 2]

\* C9: the onTimeCompletionRate GetUserAnalytics computes is onTimeCount /
\* doneWithCompletionCount, where onTimeCount counts the done tasks whose
\* completed timestamp is strictly before their due date, and 0 when no done
\* task has a completed timestamp (one on-time task of one: 1; one of two:
\* one half).
C9_OnTimeRateIsShare ==
    [][ComputedNow(lastOp')
       => LET done == DoneWithCompletion(lastOp'.user)
              onTime == {r \in done : r.completed_at[1] < r.due_date}
          IN  lastOp'.analytics[1].OnTimeCompletionRate =
                  IF done = {} THEN Float(0, 1)
                  ELSE Float(Cardinality(onTime), Cardinality(done))]_vars

\* the counts and metrics of a snapshot
Metrics(a) ==
    [StatusCount |-> a.StatusCount, PriorityCount |-> a.PriorityCount,
     AvgCompletionTime |-> a.AvgCompletionTime,
     OnTimeCompletionRate |-> a.OnTimeCompletionRate,
     OverdueTasks |-> a.OverdueTasks]

\* C10: after a GetUserAnalytics call for (user, period) that missed the
\* cache, computed a snapshot and stored it, a call for the same (user,
\* period) that follows at once (no other request, no time passed, the
\* cache read succeeding) returns a snapshot with the same counts and
\* metrics and makes no query to the task store.
C10_SecondCallServedFromCache ==
    [][(/\ lastOp.kind = "analytics"
        /\ lastOp.err = NoErr
        /\ lastOp.queries = 1
        /\ lastOp.fault # "cacheSet"
        /\ lastOp.analytics[1].GeneratedAt.wall = now
        /\ now' = now
        /\ lastOp'.kind = "analytics"
        /\ lastOp'.user = lastOp.user
        /\ lastOp'.period = lastOp.period
        /\ lastOp'.fault # "cacheGet")
       => /\ lastOp'.err = NoErr
          /\ lastOp'.http = 200
          /\ lastOp'.queries = 0
          /\ Metrics(lastOp'.analytics[1]) = Metrics(lastOp.analytics[1])
          /\ cache' = cache]_vars

C10_Witness ==
    /\ lastOp.kind = "analytics"
    /\ lastOp.err = NoErr
    /\ lastOp.queries = 0
    /\ lastOp.analytics[1].GeneratedAt = [wall |-> now, monotonic |-> FALSE]
    /\ lastOp.analytics[1].OverdueTasks = 2
    /\ AnalyticsKey(lastOp.user, lastOp.period) \in DOMAIN cache

(***************************************************************************)
(* Failures during an analytics request                                    *)
(***************************************************************************)
\* the snapshots GetUserAnalytics can compute for the last request from the
\* tasks table as it is
Computable(op) ==
    {ComputeAnalytics(rows, op.period, now) :
        rows \in RepoGetAll(tasks, Filters("", "", <<>>, op.user, <<>>))}

\* the last request was an analytics request with a valid period, handled
\* in this step
AnalyticsServed(op) ==
    /\ now' = now
    /\ op.kind = "analytics"
    /\ op.http # 400

\* C11: a cache failure never fails GetUserAnalytics: when the cache read
\* returns an error the call computes the snapshot from the task store and
\* returns it, and when the cache write returns an error the snapshot is
\* still returned without error (and the cache is as it was).
C11_CacheFailuresNotFatal ==
    [][AnalyticsServed(lastOp')
       => /\ lastOp'.fault = "cacheGet"
             => /\ lastOp'.err = NoErr
                /\ lastOp'.http = 200
                /\ lastOp'.queries = 1
                /\ lastOp'.analytics # <<>>
                /\ lastOp'.analytics[1] \in Computable(lastOp')
          /\ lastOp'.fault = "cacheSet"
             => /\ lastOp'.err = NoErr
                /\ lastOp'.http = 200
                /\ lastOp'.analytics # <<>>
                /\ cache' = cache
                /\ AnalyticsKey(lastOp'.user, lastOp'.period)
                       \notin DOMAIN cache
                   => lastOp'.analytics[1] \in Computable(lastOp')]_vars

\* a cache read error answered by computing; the snapshot was then cached
C11_Witness ==
    /\ lastOp.kind = "analytics"
    /\ lastOp.fault = "cacheGet"
    /\ lastOp.err = NoErr
    /\ lastOp.queries = 1
    /\ lastOp.analytics[1].GeneratedAt = TimeNow(now)
    /\ lastOp.analytics[1].OverdueTasks >= 1
    /\ \E k \in DOMAIN cache :
          /\ k = AnalyticsKey(lastOp.user, lastOp.period)
          /\ cache[k].expire = now + AnalyticsTTL

\* C12: when the task-store query fails during GetUserAnalytics on a cache
\* miss, the call returns that error (500 at the endpoint), returns no
\* snapshot and writes nothing to the cache.
C12_StoreFailureReturned ==
    [][(/\ AnalyticsServed(lastOp')
        /\ lastOp'.fault = "read"
        /\ AnalyticsKey(lastOp'.user, lastOp'.period) \notin DOMAIN cache)
       => /\ lastOp'.err = ErrOther
          /\ lastOp'.http = 500
          /\ lastOp'.queries = 1
          /\ lastOp'.analytics = <<>>
          /\ cache' = cache]_vars

C12_Witness ==
    /\ lastOp.kind = "analytics"
    /\ lastOp.fault = "read"
    /\ lastOp.http = 500
    /\ lastOp.analytics = <<>>
    /\ OwnedBy(lastOp.user) # {}
    /\ AnalyticsKey(lastOp.user, lastOp.period) \notin DOMAIN cache

(***************************************************************************)
(* Properties of the background worker's iterations                        *)
(***************************************************************************)
\* this step is the iteration of loop g, run without an injected failure
IterationDone(g) ==
    /\ worker.loop[g] = "iterating"
    /\ worker'.loop[g] = "select"
    /\ lastOp'.fault = "none"
    /\ lastOp'.err = NoErr

\* the users that own a task in the table
Owners == {r.user_id : r \in tasks}

\* C13: after one expiry-sweep iteration in which every delete succeeds,
\* every task of any user whose due date precedes now minus 7 days is gone
\* from the store and every other task is still there (due 10 days ago:
\* deleted; due 3 days ago: kept).
C13_SweepRemovesExpired ==
    [][IterationDone("sweep")
       => tasks' = {r \in tasks : ~(r.due_date < now - ExpiryDays * Day)}
      ]_vars

\* C14: after one analytics-refresh iteration without store or cache
\* failure the cache holds an entry for (user, period), for every user that
\* owns a task in the store and every period of day, week, month.
C14_RefreshFillsCache ==
    [][IterationDone("refresh")
       => \A u \in Owners, p \in {"day", "week", "month"} :
             AnalyticsKey(u, p) \in DOMAIN cache']_vars

\* C15: the analytics refresh does not read the cache: the entry it writes
\* for (user, period) is the snapshot computed from the task store as it is
\* during the iteration, also when an entry for the key was in the cache.
C15_RefreshWritesFreshSnapshot ==
    [][IterationDone("refresh")
       => \A u \in Owners, p \in {"day", "week", "month"} :
             /\ AnalyticsKey(u, p) \in DOMAIN cache'
             /\ \E rows \in RepoGetAll(tasks, Filters("", "", <<>>, u, <<>>)) :
                   Metrics(Unmarshal(cache'[AnalyticsKey(u, p)].data)
                               .Analytics)
                       = Metrics(ComputeAnalytics(rows, p, now))
             /\ cache'[AnalyticsKey(u, p)].expire = now + AnalyticsTTL]_vars

(***************************************************************************)
(* Properties of Start and Stop                                            *)
(***************************************************************************)
\* C16: when BackgroundWorker.Stop has returned after a Start, both loop
\* goroutines have ended: no sweep or refresh iteration is in progress, and
\* none starts later (a loop that has returned never runs again).
C16_StopEndsBothLoops ==
    \A c \in Stoppers :
        worker.stop[c] = "returned"
            => /\ \A g \in Loops : worker.loop[g] = "done"
               /\ worker.wg = 0
               /\ worker.stopChan = "closed"

C16_Witness ==
    /\ \E c \in Stoppers : worker.stop[c] = "returned"
    /\ \A g \in Loops : worker.loop[g] = "done"
    /\ worker.iterations = MaxIterations
    /\ lastOp.kind = "refresh"

\* a call of Stop made when the Once is done returns at once
NoBlockAfterDone ==
    \A c \in Stoppers :
        (/\ worker.stopOnce = "done"
         /\ worker.stop[c] = "idle"
         /\ worker'.stop[c] # "idle")
            => worker'.stop[c] = "returned"

\* C17: BackgroundWorker.Stop is idempotent: however many calls are made,
\* one after another or at the same time, the stop channel is closed exactly
\* once (never a second close, which would panic), a call made after the
\* first has returned does not block, and every call returns.
C17_StopIdempotent ==
    /\ [](worker.closes <= 1)
    /\ [](\A c \in Stoppers :
             worker.stop[c] = "returned" => worker.closes = 1)
    /\ [][NoBlockAfterDone]_vars
    /\ \A c \in Stoppers :
          (worker.stop[c] # "idle") ~> (worker.stop[c] = "returned")

C17_Witness ==
    /\ \A c \in Stoppers : worker.stop[c] = "returned"
    /\ worker.closes = 1
    /\ worker.stopOnce = "done"


(***************************************************************************)
(* The middleware in front of the task routes.                             *)
(***************************************************************************)

\* a step of a request to a task route: no login, no minute passing
TasksRouteStep ==
    /\ auth'.minute = auth.minute
    /\ lastOp'.kind \in {"unauthorized", "create", "export"}

\* header is "Bearer <token>" with a token Login issued for user u at most
\* TokenTTL minutes before t
Entitles(header, u, t) ==
    /\ Len(header) = 2
    /\ header[1].text = "Bearer"
    /\ \E i \in auth.issued :
           /\ i.token = header[2].jwt
           /\ i.user = u
           /\ i.at <= t
           /\ t - i.at <= TokenTTL

MissingHeader(header) == header = NoHeader

NotBearerFormat(header) ==
    header # NoHeader /\ (Len(header) # 2 \/ header[1].text # "Bearer")

MalformedToken(tok) == ~tok.wellFormed

WronglySigned(tok) == tok.wellFormed /\ (tok.alg # "HS256" \/ tok.key # Secret)

ExpiredToken(tok, t) == tok.wellFormed /\ t >= tok.exp

Refused(header, t) ==
    \/ MissingHeader(header)
    \/ NotBearerFormat(header)
    \/ /\ Len(header) = 2
       /\ \/ MalformedToken(header[2].jwt)
          \/ WronglySigned(header[2].jwt)
          \/ ExpiredToken(header[2].jwt, t)

\* C18: a request to a task route is handled on behalf of user U only if its
\* header is "Bearer <token>" with a token Login issued for U at most 15
\* minutes earlier; with no header, another format, a malformed, wrongly
\* signed or expired token the answer is 401, no handler runs and neither
\* the tasks table nor the cache changes.
C18_OnlyIssuedUnexpiredTokens ==
    [][TasksRouteStep =>
          /\ lastOp'.kind # "unauthorized" =>
                 Entitles(auth'.header, lastOp'.user, Clock)
          /\ Refused(auth'.header, Clock) =>
                 /\ lastOp'.kind = "unauthorized"
                 /\ lastOp'.http = 401
                 /\ UNCHANGED <<tasks, cache, nextId>>]_vars

\* a token that created a task for its user is refused once it has expired
C18_Witness ==
    /\ lastOp.kind = "unauthorized"
    /\ lastOp.http = 401
    /\ \E i \in auth.issued :
           /\ auth.header = <<Word("Bearer"), TokenString(i.token)>>
           /\ \E row \in tasks : row.user_id = i.user


(***************************************************************************)
(* Registration.                                                           *)
(***************************************************************************)

HasUser(email) == \E u \in auth.users : u.email = email

\* C19: registering an e-mail for which a user exists is answered with
\* ErrUserExists and 409, creates no user and leaves the users as they are;
\* the users table never holds two users with one e-mail.
C19_DuplicateEmailConflicts ==
    /\ [][(/\ lastOp'.kind = "register"
           /\ lastOp'.fault = "none"
           /\ BindRegister(lastOp'.req)
           /\ HasUser(lastOp'.req.email))
              => /\ lastOp'.err = ErrUserExists
                 /\ lastOp'.http = 409
                 /\ auth'.users = auth.users]_vars
    /\ [](\A u, v \in auth.users : u.email = v.email => u = v)

\* the e-mail of a user is registered again and refused with 409
C19_Witness ==
    /\ lastOp.kind = "register"
    /\ lastOp.http = 409
    /\ lastOp.err = ErrUserExists
    /\ \E u \in auth.users : u.email = lastOp.req.email

ShortPassword(password) == Len(password) < MinPasswordLen

\* C20: a registration with an e-mail that is no address, or with a password
\* of fewer than 6 characters, is answered with 400 and creates no user; a
\* registration with an e-mail address and a password of 6 or more, for an
\* e-mail no user has, is answered with 201 and creates exactly one user,
\* with that e-mail.
C20_RegistrationValidated ==
    [][lastOp'.kind = "register" =>
          /\ (\/ ~ParseAddress(lastOp'.req.email)
              \/ ShortPassword(lastOp'.req.password))
                 => lastOp'.http = 400 /\ auth'.users = auth.users
          /\ (/\ lastOp'.fault = "none"
              /\ IsAddrSpec(lastOp'.req.email)
              /\ ~ShortPassword(lastOp'.req.password)
              /\ ~HasUser(lastOp'.req.email))
                 => /\ lastOp'.http = 201
                    /\ \E u \in auth'.users \ auth.users :
                           /\ auth'.users = auth.users \cup {u}
                           /\ u.email = lastOp'.req.email]_vars

\* one registration was created, and the last one was refused with 400
C20_Witness ==
    /\ lastOp.kind = "register"
    /\ lastOp.http = 400
    /\ lastOp.err \in {ErrInvalidEmail, ErrOther}
    /\ Cardinality(auth.users) = 1


(***************************************************************************)
(* Login.                                                                  *)
(***************************************************************************)

\* the user registered with e-mail email has password password
Credentials(email, password) ==
    \E u \in auth.users :
        /\ u.email = email
        /\ CompareHashAndPassword(u.password_hash, password)

AnalyticsStep == lastOp'.kind = "analytics" /\ now' = now

\* C22: with no period parameter, or an empty one, the request is served as
\* the same request with period week is; with a period other than day, week
\* and month the answer is 400 "Invalid period", the service is not called,
\* the store is not queried and the cache is left as it is.
C22_PeriodDefaultAndValidation ==
    [][AnalyticsStep =>
          /\ lastOp'.query = "" =>
                 /\ lastOp'.period = "week"
                 /\ \E r \in GetUserAnalytics(tasks, cache, lastOp'.user, "week",
                                              lastOp'.fault, now) :
                        /\ cache' = r.kv
                        /\ lastOp'.err = r.err
                        /\ lastOp'.analytics = r.out
          /\ lastOp'.query \notin {"", "day", "week", "month"} =>
                 /\ lastOp'.http = 400
                 /\ lastOp'.err = ErrInvalidPeriod
                 /\ lastOp'.analytics = <<>>
                 /\ lastOp'.queries = 0
                 /\ UNCHANGED <<tasks, cache>>]_vars

\* a request with no period was answered with the snapshot of the week,
\* which it cached
C22_Witness ==
    /\ lastOp.kind = "analytics"
    /\ lastOp.query = ""
    /\ lastOp.http = 200
    /\ Len(lastOp.analytics) = 1
    /\ lastOp.analytics[1].Period = "week"
    /\ AnalyticsKey(lastOp.user, "week") \in DOMAIN cache


(***************************************************************************)
(* Failures of the tasks table.                                            *)
(***************************************************************************)

\* C23: when the tasks table fails while a task is read, updated or
\* deleted, the answer is 500 with a generic error, neither ErrTaskNotFound
\* (404) nor ErrAccessDenied (403).
C23_StoreFailureIsInternalError ==
    [][(/\ lastOp'.kind \in {"get", "update", "delete"}
        /\ lastOp'.fault \in {"read", "write"})
           => /\ lastOp'.http = 500
              /\ lastOp'.err \notin {ErrTaskNotFound, ErrAccessDenied}]_vars


(***************************************************************************)
(* Creating a task.                                                        *)
(***************************************************************************)

\* a step of a request to create a task
CreateStep == lastOp'.kind = "create" /\ now' = now

ServedFromCache ==
    /\ AnalyticsStep
    /\ worker' = worker
    /\ lastOp'.http = 200
    /\ lastOp'.queries = 0

\* C25: whatever analytics requests and refresh iterations came before, a
\* snapshot GetUserAnalytics returns from the cache was computed at most
\* AnalyticsTTL hours before the call, and no entry older than that is in
\* the cache.
C25_CachedSnapshotWithinTTL ==
    /\ [][ServedFromCache =>
             /\ lastOp'.analytics[1].GeneratedAt.wall <= now
             /\ now - lastOp'.analytics[1].GeneratedAt.wall <= AnalyticsTTL]_vars
    /\ [](\A k \in DOMAIN cache :
             now - cache[k].data.analytics.generated_at < AnalyticsTTL)

\* a snapshot computed earlier is served from the cache after the refresh
\* loop ran an iteration
C25_Witness ==
    /\ lastOp.kind = "analytics"
    /\ lastOp.http = 200
    /\ lastOp.queries = 0
    /\ lastOp.analytics[1].GeneratedAt.wall < now
    /\ worker.iterations > 0


(***************************************************************************)
(* Task mutations and the analytics cache.                                 *)
(***************************************************************************)
MutationKinds == {"create", "update", "delete", "import"}

\* C26: CreateTask, UpdateUserTask, DeleteUserTask and ImportTasks leave
\* every cache entry as it is, and an analytics request that follows a
\* mutation while the entry for its (user, period) is still in the cache is
\* answered with the snapshot of that entry, without a query to the store.
C26_MutationsLeaveCache ==
    [][/\ (lastOp'.kind \in MutationKinds /\ now' = now /\ worker' = worker)
          => cache' = cache
       /\ (/\ lastOp.kind \in MutationKinds
           /\ lastOp.err = NoErr
           /\ AnalyticsStep
           /\ AnalyticsKey(lastOp'.user, lastOp'.period) \in DOMAIN cache)
          => /\ lastOp'.http = 200
             /\ lastOp'.queries = 0
             /\ lastOp'.analytics =
                    <<Unmarshal(cache[AnalyticsKey(lastOp'.user,
                                   lastOp'.period)].data).Analytics>>
             /\ cache' = cache]_vars

\* after a task was created and then deleted, the user is still told of
\* one pending task: the snapshot cached in between is served
C26_Witness ==
    /\ lastOp.kind = "analytics"
    /\ lastOp.queries = 0
    /\ lastOp.http = 200
    /\ StatusPending \in DOMAIN lastOp.analytics[1].StatusCount
    /\ {t \in tasks : t.user_id = lastOp.user} = {}
    /\ nextId > 1


(***************************************************************************)
(* Iterations of one loop.                                                 *)
(***************************************************************************)
\* the goroutines of loop g that are inside an iteration
Iterating(g) ==
    {n \in {1} \cup LaterStarts :
        IF n = 1 THEN worker.loop[g] = "iterating"
        ELSE worker.more[n][g] = "iterating"}

\* C27: whatever calls of Start and Stop were made, at most one sweep
\* iteration and at most one refresh iteration are executing.
C27_IterationsNeverOverlap ==
    \A g \in Loops : Cardinality(Iterating(g)) <= 1


(***************************************************************************)
(* Errors of an iteration.                                                 *)
(***************************************************************************)
IterationKind(g) == IF g = "sweep" THEN "sweep" ELSE "refresh"

OtherLoop(g) == IF g = "sweep" THEN "refresh" ELSE "sweep"

\* the step ends an iteration of loop g with an error
IterationFailed(g) ==
    /\ worker.loop[g] = "iterating"
    /\ worker'.loop[g] # "iterating"
    /\ lastOp'.kind = IterationKind(g)
    /\ lastOp'.err # NoErr

\* C28: when an iteration of a loop returns an error, that loop is back at
\* its select, where its next tick starts another iteration unless the stop
\* channel was closed; the other loop is where it was, and no goroutine
\* has left the wait group.
C28_LoopSurvivesError ==
    /\ [][\A g \in Loops :
             IterationFailed(g)
             => /\ worker'.loop[g] = "select"
                /\ worker'.loop[OtherLoop(g)] = worker.loop[OtherLoop(g)]
                /\ worker'.wg = worker.wg
                /\ worker'.stopChan = worker.stopChan]_vars
    /\ [](\A g \in Loops :
             (worker.loop[g] = "select" /\ worker.iterations < MaxIterations)
             => ENABLED LoopTick(g))

\* the sweep loop is in an iteration again after the one before it failed,
\* and the refresh loop is still at its select
C28_Witness ==
    /\ lastOp.kind = "sweep"
    /\ lastOp.err # NoErr
    /\ worker.loop["sweep"] = "iterating"
    /\ worker.loop["refresh"] = "select"
    /\ worker.stopChan = "open"


(***************************************************************************)
(* Stop while the loops are at work.                                       *)
(***************************************************************************)
\* every call of Stop returns
StopReturns ==
    \A c \in Stoppers :
        (worker.stop[c] \in {"closing", "waiting", "blocked"})
            ~> (worker.stop[c] = "returned")

\* an iteration ends by returning to the select of its loop, and a loop
\* ends at its select, with the stop channel closed
IterationsRunToTheEnd ==
    \A g \in Loops :
        /\ (worker.loop[g] = "iterating" /\ worker'.loop[g] # "iterating")
              => /\ worker'.loop[g] = "select"
                 /\ lastOp'.kind = IterationKind(g)
        /\ (worker.loop[g] # "done" /\ worker'.loop[g] = "done")
              => /\ worker.loop[g] = "select"
                 /\ worker.stopChan = "closed"

\* Stop returns only when no loop is left in an iteration or at its select
NoReturnBeforeLoopsEnd ==
    \A c \in Stoppers :
        worker.stop[c] = "returned"
            => \A g \in Loops : worker.loop[g] \notin {"select", "iterating"}

\* once the stop channel is closed no loop starts an iteration
NoIterationAfterClose ==
    \A g \in Loops :
        worker.stopChan = "closed"
            => ~(worker.loop[g] = "select" /\ worker'.loop[g] = "iterating")

\* C29 as stated: after Stop is called on a started worker Stop returns;
\* an iteration in progress is finished, the loop starts no further
\* iteration and exits, an idle loop exits without running an iteration,
\* and Stop does not return before the iteration in progress is over.
C29_StopStartsNoIteration ==
    /\ StopReturns
    /\ [][IterationsRunToTheEnd]_vars
    /\ []NoReturnBeforeLoopsEnd
    /\ [][NoIterationAfterClose]_vars

\* C29: after Stop is called on a started worker Stop returns; an
\* iteration in progress is finished, each loop exits at a select at which
\* the stop case is taken (a tick that is ready at that select may be taken
\* first), and Stop does not return before both loops have exited.
C29_StopDrainsLoops ==
    /\ StopReturns
    /\ [][IterationsRunToTheEnd]_vars
    /\ []NoReturnBeforeLoopsEnd

\* Stop has closed the channel and waits while the sweep loop is in an
\* iteration and the refresh loop has exited
C29_Witness ==
    /\ \E c \in Stoppers : worker.stop[c] = "waiting"
    /\ worker.stopChan = "closed"
    /\ worker.loop["sweep"] = "iterating"
    /\ worker.loop["refresh"] = "done"


(***************************************************************************)
(* The batch of a sweep iteration.                                         *)
(***************************************************************************)
\* C30: in a sweep iteration whose query succeeded, a Delete is called for
\* every task the query returned, in turn, with that task's id and owner,
\* whether or not an earlier Delete failed; every task whose Delete
\* succeeded is gone from the store, every other row is still there, and
\* the iteration returns no error.
C30_FailedDeleteDoesNotAbort ==
    [][lastOp'.kind = "sweep"
       => LET found == lastOp'.tasks
              made == lastOp'.deletes
          IN  /\ lastOp'.err = NoErr
              /\ Len(made) = Len(found)
              /\ \A i \in 1..Len(found) :
                    /\ made[i].id = found[i].id
                    /\ made[i].user = found[i].user_id
                    /\ made[i].err = NoErr
                          => \A row \in tasks' : row.id # found[i].id
              /\ tasks' = {row \in tasks :
                              \A i \in 1..Len(found) :
                                  made[i].err = NoErr
                                      => row.id # found[i].id}]_vars

\* the first Delete of a batch of two failed and the second removed its
\* task, which belongs to another user
C30_Witness ==
    /\ lastOp.kind = "sweep"
    /\ lastOp.err = NoErr
    /\ Len(lastOp.deletes) = 2
    /\ lastOp.deletes[1].err # NoErr
    /\ lastOp.deletes[2].err = NoErr
    /\ lastOp.deletes[1].user # lastOp.deletes[2].user
    /\ \E row \in tasks : row.id = lastOp.deletes[1].id
    /\ \A row \in tasks : row.id # lastOp.deletes[2].id


(***************************************************************************)
(* The rounds of a refresh iteration.                                      *)
(***************************************************************************)
\* the round of the log for a pair
RoundsOf(rounds, u, period) ==
    {k \in 1..Len(rounds) : rounds[k].user = u /\ rounds[k].period = period}

\* C31: a refresh iteration whose user list was fetched returns no error and
\* makes one round for every period of every active user, whether or not
\* another round failed; a round nothing befalls gets its snapshot and
\* writes it, and the entry of every round that wrote is in the cache with
\* the full TTL.  An iteration whose user list could not be fetched returns
\* the error and writes nothing.
C31_RoundFailureDoesNotStop ==
    [][lastOp'.kind = "refresh"
       => IF lastOp'.fault = "read"
          THEN /\ lastOp'.err # NoErr
               /\ lastOp'.pairs = <<>>
               /\ cache' = cache
          ELSE LET rounds == lastOp'.pairs
               IN  /\ lastOp'.err = NoErr
                   /\ \A u \in lastOp'.active :
                         \A i \in 1..Len(RefreshPeriods) :
                            Cardinality(RoundsOf(rounds, u,
                                                 RefreshPeriods[i])) = 1
                   /\ \A k \in 1..Len(rounds) :
                         LET rd == rounds[k]
                             key == AnalyticsKey(rd.user, rd.period)
                         IN  /\ rd.user \in lastOp'.active
                             /\ rd.fault = "none"
                                   => rd.get = NoErr /\ rd.set = NoErr
                             /\ (rd.get = NoErr /\ rd.set = NoErr)
                                   => /\ key \in DOMAIN cache'
                                      /\ cache'[key].expire
                                            = now + AnalyticsTTL
                                      /\ cache'[key].data.cached_at = now
                                      /\ cache'[key].data.user_id = rd.user
                                      /\ cache'[key].data.period = rd.period]_vars

\* the first round of an iteration over both users failed to compute, and
\* the five rounds after it wrote their entries
C31_Witness ==
    /\ lastOp.kind = "refresh"
    /\ lastOp.err = NoErr
    /\ lastOp.active = Users
    /\ Len(lastOp.pairs) = 2 * Len(RefreshPeriods)
    /\ lastOp.pairs[1].get # NoErr
    /\ \A k \in 2..Len(lastOp.pairs) : lastOp.pairs[k].set = NoErr
    /\ Cardinality(DOMAIN cache) = Len(lastOp.pairs) - 1


(***************************************************************************)
(* The period of a snapshot.                                               *)
(***************************************************************************)
\* the request before computed a snapshot at this hour
ComputedBefore ==
    /\ lastOp.kind = "analytics"
    /\ lastOp.err = NoErr
    /\ lastOp.queries = 1
    /\ lastOp.analytics[1].GeneratedAt.wall = now

\* C32: when a user's request for one period has computed a snapshot and
\* the user's next request, at the same hour and over the same table, is
\* for another period and misses the cache, the snapshot it computes has
\* the same counts and metrics and the period asked for; it is stored under
\* the key of its own period and every other entry is left as it was.
C32_PeriodIsLabelOnly ==
    [][(/\ ComputedBefore
        /\ AnalyticsStep
        /\ tasks' = tasks
        /\ worker' = worker
        /\ lastOp'.user = lastOp.user
        /\ lastOp'.err = NoErr
        /\ lastOp'.queries = 1)
       => LET key == AnalyticsKey(lastOp'.user, lastOp'.period)
          IN  /\ lastOp'.period # lastOp.period
              /\ Metrics(lastOp'.analytics[1]) = Metrics(lastOp.analytics[1])
              /\ lastOp'.analytics[1].Period = lastOp'.period
              /\ lastOp.analytics[1].Period = lastOp.period
              /\ DOMAIN cache' = DOMAIN cache \cup {key}
              /\ \A k \in DOMAIN cache \ {key} : cache'[k] = cache[k]
              /\ cache'[key].data.period = lastOp'.period
              /\ cache'[key].data.analytics.period = lastOp'.period]_vars

\* the month snapshot was computed after those of day and week, all three
\* at this hour, over a table in which tasks of the user are overdue
C32_Witness ==
    /\ lastOp.kind = "analytics"
    /\ lastOp.period = "month"
    /\ lastOp.queries = 1
    /\ lastOp.analytics[1].OverdueTasks > 0
    /\ \A i \in 1..Len(RefreshPeriods) :
          /\ AnalyticsKey("u1", RefreshPeriods[i]) \in DOMAIN cache
          /\ cache[AnalyticsKey("u1", RefreshPeriods[i])]
                .data.analytics.generated_at = now


(***************************************************************************)
(* Requests served at the same time.  net/http serves every request in a   *)
(* goroutine of its own and the service holds no lock, so the calls that   *)
(* two requests make to the store and to the cache interleave in any       *)
(* order.  A client's request advances by one such call at a time; what    *)
(* the goroutine holds between two calls is in inflight.                   *)
(***************************************************************************)
\* the position of the next write among the writes of the requests served
NextWrite ==
    1 + Cardinality({c \in Clients : inflight[c].wrote > 0})

Serving(c, call, pc) ==
    inflight[c].call = call /\ inflight[c].pc = pc

\* GetUserAnalytics up to its lookup in the cache: a hit is returned
AnalyticsLookup(c, u, period) ==
    /\ Serving(c, "none", "idle")
    /\ LET got == RedisGetUserAnalytics(cache, u, period, "none")
           call == [NoRequestServed EXCEPT !.call = "analytics", !.user = u,
                                           !.period = period]
       IN  inflight' =
               [inflight EXCEPT ![c] =
                   IF got.err = NoErr /\ got.data # <<>>
                   THEN [call EXCEPT !.pc = "done", !.http = 200,
                                     !.out = <<got.data[1].Analytics>>]
                   ELSE [call EXCEPT !.pc = "query"]]
    /\ UNCHANGED <<tasks, cache, now, nextId, lastOp, completedLog, worker,
                   auth>>

\* GetUserAnalytics from the miss on: the user's tasks are read and the
\* snapshot is computed from the rows
AnalyticsQuery(c) ==
    /\ Serving(c, "analytics", "query")
    /\ \E rows \in RepoGetAll(tasks, Filters("", "", <<>>, inflight[c].user,
                                             <<>>)) :
          inflight' =
              [inflight EXCEPT ![c] =
                  [@ EXCEPT !.pc = "set", !.store = tasks, !.read = now,
                            !.calls = 1,
                            !.out = <<ComputeAnalytics(rows,
                                          inflight[c].period, now)>>]]
    /\ UNCHANGED <<tasks, cache, now, nextId, lastOp, completedLog, worker,
                   auth>>

\* GetUserAnalytics from the computed snapshot on: it is put in the cache
\* and returned
AnalyticsSet(c) ==
    /\ Serving(c, "analytics", "set")
    /\ LET set == RedisSetUserAnalytics(cache,
                      [UserID |-> inflight[c].user,
                       Period |-> inflight[c].period,
                       Analytics |-> inflight[c].out[1],
                       CachedAt |-> TimeNow(now)], "none", now)
       IN  /\ cache' = set.kv
           /\ inflight' = [inflight EXCEPT ![c] =
                              [@ EXCEPT !.pc = "done", !.http = 200,
                                        !.wrote = NextWrite]]
    /\ UNCHANGED <<tasks, now, nextId, lastOp, completedLog, worker, auth>>

\* the rows of the table when the requests come in
RaceRows ==
    {r \in SeedRows : r.id \in {1, 3, 6}}

InitRace ==
    /\ tasks = RaceRows
    /\ cache = <<>>
    /\ now = StartTime
    /\ nextId = 1
    /\ lastOp = NoOp
    /\ completedLog = [id \in TaskIds |-> <<>>]
    /\ worker = NewBackgroundWorker
    /\ auth = NoAuth
    /\ inflight = NoRequests

\* two analytics requests, while a task of u1 is deleted and time passes
NextAnalyticsRace ==
    \/ \E c \in Clients, u \in Users : AnalyticsLookup(c, u, "week")
    \/ \E c \in Clients : AnalyticsQuery(c)
    \/ \E c \in Clients : AnalyticsSet(c)
    \/ /\ \E r \in RaceRows : HandlerDeleteTask("u1", r.id, "none")
       /\ UNCHANGED <<completedLog, worker, auth, inflight>>
    \/ Tick /\ UNCHANGED <<completedLog, worker, auth, inflight>>

SpecAnalyticsRace == InitRace /\ [][NextAnalyticsRace]_vars

(***************************************************************************)
(* Concurrent misses of the analytics cache                                *)
(***************************************************************************)
\* c asked for analytics, found no entry and has read the user's tasks
Missed(c) ==
    /\ inflight[c].call = "analytics"
    /\ inflight[c].pc \in {"set", "done"}
    /\ inflight[c].calls = 1

\* the snapshots that can be computed from the rows c read, at the time it
\* read them
SnapshotsRead(c) ==
    {ComputeAnalytics(rows, inflight[c].period, inflight[c].read) :
        rows \in RepoGetAll(inflight[c].store,
                            Filters("", "", <<>>, inflight[c].user, <<>>))}

SameKey(c, d) ==
    /\ c # d
    /\ inflight[c].user = inflight[d].user
    /\ inflight[c].period = inflight[d].period

\* the entry of c's key holds c's snapshot, as SetUserAnalytics encodes it
CacheHoldsSnapshotOf(kv, c) ==
    LET key == AnalyticsKey(inflight[c].user, inflight[c].period)
        ca == [UserID |-> inflight[c].user, Period |-> inflight[c].period,
               Analytics |-> inflight[c].out[1], CachedAt |-> TimeNow(now)]
    IN  /\ key \in DOMAIN kv
        /\ kv[key].data.analytics = Marshal(ca).analytics
        /\ kv[key].data.user_id = inflight[c].user
        /\ kv[key].data.period = inflight[c].period

\* C33: two GetUserAnalytics calls that both miss the cache for one key
\* both read the store and each returns a snapshot computed from the rows
\* it read; neither waits for the other nor fails; each write to the cache
\* replaces the entry of the key, so after both the entry is the snapshot
\* of the call that wrote last.
C33_ConcurrentMisses ==
    /\ [](\A c \in Clients :
            /\ Missed(c) =>
                  /\ inflight[c].err = NoErr
                  /\ inflight[c].out # <<>>
                  /\ inflight[c].out[1] \in SnapshotsRead(c)
            /\ Serving(c, "analytics", "query") => ENABLED AnalyticsQuery(c)
            /\ Serving(c, "analytics", "set") => ENABLED AnalyticsSet(c)
            /\ Serving(c, "analytics", "done") => inflight[c].http = 200)
    /\ [][\A c \in Clients :
             Serving(c, "analytics", "set") /\ Serving(c, "analytics", "done")'
             => /\ CacheHoldsSnapshotOf(cache, c)'
                /\ \A k \in DOMAIN cache :
                      k # AnalyticsKey(inflight[c].user, inflight[c].period)
                      => k \in DOMAIN cache' /\ cache'[k] = cache[k]]_vars
    /\ [](\A c, d \in Clients :
            /\ SameKey(c, d)
            /\ Serving(c, "analytics", "done") /\ Missed(c)
            /\ Serving(d, "analytics", "done") /\ Missed(d)
            /\ inflight[c].wrote > inflight[d].wrote
            /\ AnalyticsKey(inflight[c].user, inflight[c].period)
                  \in DOMAIN cache
            => CacheHoldsSnapshotOf(cache, c))

\* both calls missed, read different tables and returned different
\* snapshots; the cache holds the one written last
C33_Witness ==
    \E c, d \in Clients :
        /\ SameKey(c, d)
        /\ Serving(c, "analytics", "done") /\ Missed(c)
        /\ Serving(d, "analytics", "done") /\ Missed(d)
        /\ inflight[c].out # inflight[d].out
        /\ inflight[c].wrote > inflight[d].wrote
        /\ inflight[c].read = inflight[d].read
        /\ CacheHoldsSnapshotOf(cache, c)

(***************************************************************************)
(* Updates and deletes of one task served at the same time.  Update reads  *)
(* the task, patches it in memory and writes every column back; Delete     *)
(* looks the task up and then removes it.                                  *)
(***************************************************************************)
\* TaskServiceImpl.Update up to the in-memory patch: repo.GetByID, the
\* owner check, the field assignments
UpdateLookup(c, u, id, body) ==
    /\ Serving(c, "none", "idle")
    /\ LET found == RepoGetByID(tasks, id)
           call == [NoRequestServed EXCEPT !.call = "update", !.user = u,
                                           !.id = id, !.body = body,
                                           !.calls = 1, !.read = now]
           err == IF found = <<>> THEN ErrTaskNotFound
                  ELSE IF found[1].user_id # u THEN ErrAccessDenied
                  ELSE NoErr
       IN  inflight' =
               [inflight EXCEPT ![c] =
                   IF err # NoErr
                   THEN [call EXCEPT !.pc = "done", !.err = err,
                                     !.http = TaskStatusCode(err)]
                   ELSE [call EXCEPT
                            !.pc = "write",
                            !.found = <<Patched(found[1],
                                                Task(id, BoundUserID(body),
                                                     body, now),
                                                now)>>]]
    /\ UNCHANGED <<tasks, cache, now, nextId, lastOp, completedLog, worker,
                   auth>>

\* TaskServiceImpl.Update from repo.Update on: the UPDATE of the patched
\* task; no row affected is an error of the repository
UpdateWrite(c) ==
    /\ Serving(c, "update", "write")
    /\ LET existingTask == inflight[c].found[1]
           affected == RepoUpdateMatches(tasks, existingTask)
           err == IF affected = {} THEN ErrOther ELSE NoErr
       IN  /\ tasks' = IF err = NoErr THEN RepoUpdate(tasks, existingTask)
                       ELSE tasks
           /\ inflight' =
                  [inflight EXCEPT ![c] =
                      [@ EXCEPT !.pc = "done", !.calls = 2, !.err = err,
                                !.http = TaskStatusCode(err),
                                !.store = tasks,
                                !.out = IF err = NoErr THEN <<existingTask>>
                                        ELSE <<>>,
                                !.wrote = IF err = NoErr THEN NextWrite
                                          ELSE 0]]
    /\ UNCHANGED <<cache, now, nextId, lastOp, completedLog, worker, auth>>

\* TaskServiceImpl.Delete up to the owner check: s.GetByID
DeleteLookup(c, u, id) ==
    /\ Serving(c, "none", "idle")
    /\ LET got == GetByID(tasks, id, u, "none")
           call == [NoRequestServed EXCEPT !.call = "delete", !.user = u,
                                           !.id = id, !.calls = 1,
                                           !.read = now]
       IN  inflight' =
               [inflight EXCEPT ![c] =
                   IF got.err # NoErr
                   THEN [call EXCEPT !.pc = "done", !.err = got.err,
                                     !.http = TaskStatusCode(got.err)]
                   ELSE [call EXCEPT !.pc = "delete", !.found = got.out]]
    /\ UNCHANGED <<tasks, cache, now, nextId, lastOp, completedLog, worker,
                   auth>>

\* TaskServiceImpl.Delete from repo.Delete on: the DELETE; no row affected
\* is an error of the repository
DeleteExec(c) ==
    /\ Serving(c, "delete", "delete")
    /\ LET err == IF RepoGetByID(tasks, inflight[c].id) = <<>> THEN ErrOther
                  ELSE NoErr
       IN  /\ tasks' = RepoDelete(tasks, inflight[c].id)
           /\ inflight' =
                  [inflight EXCEPT ![c] =
                      [@ EXCEPT !.pc = "done", !.calls = 2, !.err = err,
                                !.http = TaskStatusCode(err),
                                !.store = tasks,
                                !.wrote = IF err = NoErr THEN NextWrite
                                          ELSE 0]]
    /\ UNCHANGED <<cache, now, nextId, lastOp, completedLog, worker, auth>>

\* the task the concurrent requests are about: pending, of u1
RaceTask == CHOOSE r \in SeedRows : r.id = 3

\* patches of status and priority
RaceBodies ==
    {b \in Bodies : /\ b.title = EmptyText
                    /\ b.description = EmptyText
                    /\ b.due_date = ZeroTime}

InitTaskRace ==
    /\ tasks = {RaceTask}
    /\ cache = <<>>
    /\ now = StartTime
    /\ nextId = 1
    /\ lastOp = NoOp
    /\ completedLog = [id \in TaskIds |-> <<>>]
    /\ worker = NewBackgroundWorker
    /\ auth = NoAuth
    /\ inflight = NoRequests

\* two updates of the task by its owner, while time passes
NextUpdateRace ==
    \/ \E c \in Clients, b \in RaceBodies :
          UpdateLookup(c, RaceTask.user_id, RaceTask.id, b)
    \/ \E c \in Clients : UpdateWrite(c)
    \/ Tick /\ UNCHANGED <<completedLog, worker, auth, inflight>>

SpecUpdateRace == InitTaskRace /\ [][NextUpdateRace]_vars

\* updates and deletes of the task by its owner
NextDeleteRace ==
    \/ \E c \in Clients, b \in RaceBodies :
          UpdateLookup(c, RaceTask.user_id, RaceTask.id, b)
    \/ \E c \in Clients : UpdateWrite(c)
    \/ \E c \in Clients : DeleteLookup(c, RaceTask.user_id, RaceTask.id)
    \/ \E c \in Clients : DeleteExec(c)

SpecDeleteRace == InitTaskRace /\ [][NextDeleteRace]_vars

(***************************************************************************)
(* Concurrent updates of one task                                          *)
(***************************************************************************)
\* the columns the UPDATE sets are those of the task written
HoldsRowWritten(row, written) ==
    /\ row.title = written.title
    /\ row.description = written.description
    /\ row.status = written.status
    /\ row.priority = written.priority
    /\ row.due_date = written.due_date
    /\ row.updated_at = written.updated_at

Updated(c) ==
    Serving(c, "update", "done") /\ inflight[c].calls = 2

\* C34: two UpdateUserTask requests of the owner on one task both succeed;
\* each UPDATE writes every column of the task its request read and
\* patched, so the stored task is the row of the UPDATE executed last, and
\* a column changed by the earlier one and not named in the later patch is
\* back at the value the later request read.
C34_LastWriteWins ==
    /\ [](\A c \in Clients :
            /\ Serving(c, "update", "done") => inflight[c].http = 200
            /\ Serving(c, "update", "write") => ENABLED UpdateWrite(c))
    /\ [][\A c \in Clients :
             Serving(c, "update", "write") /\ Serving(c, "update", "done")'
             => \E r \in tasks' :
                   /\ r.id = inflight[c].id
                   /\ HoldsRowWritten(r, inflight[c].found[1])]_vars
    /\ [](\A c, d \in Clients :
            /\ c # d /\ Updated(c) /\ Updated(d)
            /\ inflight[c].wrote > inflight[d].wrote
            => \E r \in tasks :
                  /\ r.id = inflight[c].id
                  /\ HoldsRowWritten(r, inflight[c].out[1]))

\* the earlier update set the status, the later one patched the priority
\* only and had read the task before: the status is pending again
C34_Witness ==
    \E c, d \in Clients :
        /\ c # d /\ Updated(c) /\ Updated(d)
        /\ inflight[c].wrote > inflight[d].wrote
        /\ inflight[d].body.status = StatusDone
        /\ inflight[c].body.status = ""
        /\ inflight[c].body.priority = PriorityHigh
        /\ inflight[d].out[1].status = StatusDone
        /\ \E r \in tasks : /\ r.id = RaceTask.id
                             /\ r.status = RaceTask.status
                             /\ r.priority = PriorityHigh

(***************************************************************************)
(* A task deleted between a request's lookup and its store statement       *)
(***************************************************************************)
\* c's lookup found the task and its UPDATE or DELETE found no row
DeletedMeanwhile(c) ==
    /\ inflight[c].call \in {"update", "delete"}
    /\ inflight[c].pc = "done"
    /\ inflight[c].calls = 2
    /\ RepoGetByID(inflight[c].store, inflight[c].id) = <<>>

\* C35: a request whose ownership lookup found the task and whose store
\* update or delete ran after another request deleted the task ends with
\* 404, not with success nor with an internal error.
C35_DeletedMeanwhileIsNotFound ==
    \A c \in Clients : DeletedMeanwhile(c) => inflight[c].http = 404

(***************************************************************************)
(* Registrations served at the same time, from an empty users table.  The  *)
(* requests carry an e-mail that parses and a password of six bytes, so    *)
(* each passes the binding and the two checks of Register.                 *)
(***************************************************************************)
\* generateUUID in the goroutine of c: no two calls yield the same id
UUIDOf(c) == IF c = "c1" THEN "u1" ELSE "u2"

RaceRegisterRequests ==
    {RegisterRequest(e, Password(MinPasswordLen, ch)) :
        e \in {AddrSpecA, AddrSpecB}, ch \in {"p", "q"}}

\* AuthService.Register up to the lookup of the e-mail
RegisterLookup(c, req) ==
    /\ Serving(c, "none", "idle")
    /\ LET call == [NoRequestServed EXCEPT !.call = "register", !.req = req,
                                           !.calls = 1]
           err == IF ~ParseAddress(req.email) THEN ErrInvalidEmail
                  ELSE IF Len(req.password) < MinPasswordLen
                  THEN ErrInvalidPassword
                  ELSE IF UserGetByEmail(auth.users, req.email, "none").found
                  THEN ErrUserExists
                  ELSE NoErr
       IN  inflight' =
               [inflight EXCEPT ![c] =
                   IF err # NoErr
                   THEN [call EXCEPT !.pc = "done", !.err = err,
                                     !.http = RegisterStatusCode(err)]
                   ELSE [call EXCEPT !.pc = "create"]]
    /\ UNCHANGED <<tasks, cache, now, nextId, lastOp, completedLog, worker,
                   auth>>

\* AuthService.Register from the hashing on: the INSERT of the user, whose
\* error is returned as it is
RegisterCreate(c) ==
    /\ Serving(c, "register", "create")
    /\ LET req == inflight[c].req
           r == UserCreate(auth.users,
                           User(UUIDOf(c), req.email,
                                GenerateFromPassword(req.password), Clock),
                           "none")
       IN  /\ auth' = [auth EXCEPT !.users = r.users]
           /\ inflight' =
                  [inflight EXCEPT ![c] =
                      [@ EXCEPT !.pc = "done", !.calls = 2, !.err = r.err,
                                !.http = RegisterStatusCode(r.err),
                                !.user = IF r.err = NoErr THEN UUIDOf(c)
                                         ELSE ""]]
    /\ UNCHANGED <<tasks, cache, now, nextId, lastOp, completedLog, worker>>

NextRegisterRace ==
    \/ \E c \in Clients, req \in RaceRegisterRequests : RegisterLookup(c, req)
    \/ \E c \in Clients : RegisterCreate(c)

SpecRegisterRace == Init /\ [][NextRegisterRace]_vars

(***************************************************************************)
(* Concurrent registrations with one e-mail                                *)
(***************************************************************************)
\* C36: of two registration requests with the same valid e-mail and valid
\* passwords, one is answered 201 and the other 409, and one user with
\* that e-mail is stored afterwards.
C36_OneCreatedOneConflict ==
    \A c, d \in Clients :
        /\ c # d
        /\ Serving(c, "register", "done")
        /\ Serving(d, "register", "done")
        /\ inflight[c].req.email = inflight[d].req.email
        => /\ {inflight[c].http, inflight[d].http} = {201, 409}
           /\ Cardinality({u \in auth.users :
                              u.email = inflight[c].req.email}) = 1

(***************************************************************************)
(* The task endpoints with bodies that name an owner.  models.Task binds   *)
(* user_id from the JSON body like any other field, so a client can send   *)
(* any value in it.                                                        *)
(***************************************************************************)
StoredIds(store) == {r.id : r \in store}

\* titled bodies that carry a user_id and, some, an id
OwnerBodies ==
    {[title |-> <<"a">>, description |-> EmptyText, status |-> "",
      priority |-> "", due_date |-> ZeroTime, user_id |-> v, id |-> i] :
        v \in Users, i \in {0} \cup TaskIds}

\* those that carry no id
OwnerPatches == {b \in OwnerBodies : b.id = 0}

NextOwner ==
    \* uuid.New yields no id a client has sent: of the ids a body may
    \* carry, those of stored tasks are tried
    /\ \/ \E u \in Users, b \in OwnerBodies :
             /\ b.id \in {0} \cup StoredIds(tasks)
             /\ HandlerCreateTask(u, b, "none")
       \/ \E u \in Users, b \in OwnerPatches : HandlerImportTasks(u, <<b>>, 0)
       \/ \E u \in Users, id \in TaskIds, b \in OwnerPatches :
             HandlerUpdateTask(u, id, b, "none")
       \/ \E u \in Users, id \in TaskIds : HandlerDeleteTask(u, id, "none")
       \/ Tick
    /\ UNCHANGED <<completedLog, worker, auth, inflight>>

SpecOwner == Init /\ [][NextOwner]_vars

(***************************************************************************)
(* Owner, id and creation time of a stored task                            *)
(***************************************************************************)
\* C37: a task enters the table on a create or an import only, owned by
\* the requester whatever user_id its body carried; as long as it is
\* stored, no request changes its owner, its id or its created timestamp.
C37_OwnerIdCreatedFixed ==
    [][/\ \A r \in tasks' :
             r.id \notin StoredIds(tasks)
             => /\ lastOp'.kind \in {"create", "import"}
                /\ r.user_id = lastOp'.user
                /\ r.created_at = now
       /\ \A r \in tasks :
             \/ r.id \notin StoredIds(tasks')
             \/ \E q \in tasks' : /\ q.id = r.id
                                  /\ q.user_id = r.user_id
                                  /\ q.created_at = r.created_at
       /\ Cardinality(tasks') = Cardinality(StoredIds(tasks'))
       /\ lastOp'.kind \in {"update", "delete"} /\ now' = now
          => StoredIds(tasks') \subseteq StoredIds(tasks)]_vars

\* a user has created a task with a body naming the other user as owner,
\* after a task was changed: the new task is the requester's and the
\* changed one has the created timestamp it had
C37_Witness ==
    /\ lastOp.kind = "create"
    /\ lastOp.http = 201
    /\ BoundUserID(lastOp.body) # lastOp.user
    /\ \E r \in tasks : /\ r.id = lastOp.id
                         /\ r.user_id = lastOp.user
    /\ \E r \in tasks : /\ r.id # lastOp.id
                         /\ r.updated_at > r.created_at

(***************************************************************************)
(* Analytics requests of two users for the week, next to refresh           *)
(* iterations over a list of active users, which go through the three      *)
(* periods, while tasks are deleted.                                       *)
(***************************************************************************)
NextIsolation ==
    \/ /\ \/ \E u \in Users : HandlerGetAnalytics(u, "week", "none")
          \/ \E r \in WorkerSeedRows :
                HandlerDeleteTask(r.user_id, r.id, "none")
       /\ UNCHANGED <<completedLog, worker, auth, inflight>>
    \/ \E users \in SUBSET Users :
          RefreshActive(users, "none", PairFaults("none"))

SpecIsolation == InitRefreshBatch /\ [][NextIsolation]_vars

(***************************************************************************)
(* Whose tasks a returned snapshot was computed from                       *)
(***************************************************************************)
OwnTasks(store, u) == {r \in store : r.user_id = u}

\* the snapshots of u's tasks alone for a period at time t, as the cache
\* encodes them
OwnSnapshots(store, u, period, t) ==
    {Marshal([UserID |-> u, Period |-> period,
              Analytics |-> ComputeAnalytics(rows, period, t),
              CachedAt |-> TimeNow(t)]).analytics :
        rows \in RepoGetAll(OwnTasks(store, u),
                            Filters("", "", <<>>, u, <<>>))}

AnalyticsAnswered ==
    /\ lastOp'.kind = "analytics"
    /\ lastOp'.http = 200
    /\ worker' = worker
    /\ now' = now
    /\ tasks' = tasks

\* C38: every entry of the cache is stored under the key of the user and
\* the period it names and, when written or replaced with another
\* content, holds a snapshot of that user's tasks alone for that period;
\* a request of U for P is answered with a snapshot for P that was just
\* computed from U's tasks alone or is the content of an entry of U and P.
C38_SnapshotOfRequesterAndPeriod ==
    /\ [](\A k \in DOMAIN cache :
            /\ k = AnalyticsKey(cache[k].data.user_id, cache[k].data.period)
            /\ cache[k].data.analytics.period = cache[k].data.period)
    /\ [][\A k \in DOMAIN cache' :
             \/ /\ k \in DOMAIN cache
                /\ cache'[k].data.analytics = cache[k].data.analytics
                /\ cache'[k].data.user_id = cache[k].data.user_id
                /\ cache'[k].data.period = cache[k].data.period
             \/ cache'[k].data.analytics \in
                   OwnSnapshots(tasks, cache'[k].data.user_id,
                                cache'[k].data.period, now)]_vars
    /\ [][AnalyticsAnswered =>
             LET u == lastOp'.user
                 p == lastOp'.period
                 out == lastOp'.analytics[1]
                 sent == Marshal([UserID |-> u, Period |-> p,
                                  Analytics |-> out,
                                  CachedAt |-> TimeNow(now)]).analytics
             IN  /\ out.Period = p
                 /\ IF lastOp'.queries = 0
                    THEN \E k \in DOMAIN cache :
                            /\ cache[k].data.user_id = u
                            /\ cache[k].data.period = p
                            /\ cache[k].data.analytics = sent
                    ELSE sent \in OwnSnapshots(tasks, u, p, now)]_vars

\* u2 is answered from the cache, which holds an entry of u2 for the day
\* that a refresh iteration wrote and another snapshot for u1 and the week
C38_Witness ==
    /\ lastOp.kind = "analytics"
    /\ lastOp.http = 200
    /\ lastOp.user = "u2"
    /\ lastOp.queries = 0
    /\ AnalyticsKey("u2", lastOp.period) \in DOMAIN cache
    /\ AnalyticsKey("u1", lastOp.period) \in DOMAIN cache
    /\ AnalyticsKey("u2", "day") \in DOMAIN cache
    /\ LET own == cache[AnalyticsKey("u2", lastOp.period)].data
           other == cache[AnalyticsKey("u1", lastOp.period)].data
       IN  own.analytics.status_count # other.analytics.status_count

(***************************************************************************)
(* Import of a batch whose k-th INSERT the store rejects                   *)
(***************************************************************************)
\* the row Import stores for the i-th task of a batch, given the id it drew
ImportedRow(u, body, id, t) ==
    [id |-> id, title |-> body.title, description |-> body.description,
     status |-> IF body.status = "" THEN StatusPending ELSE body.status,
     priority |-> IF body.priority = "" THEN PriorityMedium
                  ELSE body.priority,
     user_id |-> u,
     due_date |-> IF body.due_date = ZeroTime THEN t + Day
                  ELSE body.due_date,
     created_at |-> t, updated_at |-> t, completed_at |-> <<>>]

\* what an import of batch by u leaves when its failAt-th INSERT is
\* rejected (0: none is)
ImportLeaves(u, batch, failAt) ==
    LET stored == IF failAt = 0 THEN Len(batch) ELSE failAt - 1
    IN  /\ lastOp'.err = IF failAt = 0 THEN NoErr ELSE ErrOther
        /\ lastOp'.http = IF failAt = 0 THEN 200 ELSE 500
        /\ lastOp'.queries = IF failAt = 0 THEN Len(batch) ELSE failAt
        /\ tasks \subseteq tasks'
        /\ Cardinality(tasks') = Cardinality(tasks) + stored
        /\ \A i \in 1..stored :
              /\ nextId + i - 1 \notin StoredIds(tasks)
              /\ ImportedRow(u, batch[i], nextId + i - 1, now) \in tasks'

\* C39: ImportTasks stores the tasks of the batch in order, each under a
\* fresh id and owned by the requester; when the store rejects the k-th
\* task the error is returned, no later task is attempted and the first
\* k-1 tasks stay stored; when no INSERT fails the whole batch is stored.
C39_ImportStopsAtFirstFailure ==
    [][lastOp'.kind = "import" =>
          \A u \in Users, batch \in GuardBatches, failAt \in 0..MaxImport :
             lastOp'.user = u /\ HandlerImportTasks(u, batch, failAt)
             => ImportLeaves(u, batch, failAt)]_vars

\* from the empty table, the second INSERT of a batch was rejected and
\* the first task of the batch is stored
C39_Witness ==
    /\ lastOp.kind = "import"
    /\ lastOp.http = 500
    /\ lastOp.queries = 2
    /\ nextId = 2
    /\ Cardinality(tasks) = 1
    /\ \A r \in tasks : r.id = 1 /\ r.user_id = lastOp.user
====
